---- MODULE Spec2Model ----
(***************************************************************************)
(* Model of the AHP student profiler (AlexandroAurellino/Profiler).        *)
(*                                                                         *)
(* The repository holds two builds of the core services:                   *)
(*   "app"       : src/backend/app/...            (FastAPI endpoint)       *)
(*   "streamlit" : src/backend/streamlit/app/...  (direct-call client)     *)
(* The variable build says which one runs.                                 *)
(*                                                                         *)
(* Numbers. Python floats are modelled by exact rational arithmetic:       *)
(*   grade values        in tenths of a grade point   (A = 40, A- = 37)    *)
(*   relevance weights   in tenths                    (1.0 = 10)           *)
(*   AHP weights         in millionths                (0.3 = 300000)       *)
(*   scores              as reduced fractions <<n, d>>                     *)
(*   rounded scores      in ten-thousandths           (0.575 = 5750)       *)
(***************************************************************************)
EXTENDS Integers, Sequences, FiniteSets, TLC

VARIABLES
    build,          \* which build of the services runs
    metadata_map,   \* KnowledgeBase._metadata_map : code -> CourseMetadata
    relevance_map,  \* KnowledgeBase._relevance_map: code -> list of CourseRelevance
    doc,            \* the uploaded document
    weights,        \* the raw weight triple of the request
    pc,             \* position of the request in its handler
    config,         \* the AHPConfig built from weights, or None
    transcript,     \* the StudentTranscript, or None
    response,       \* what the handler returned or raised
    effects,        \* the work done so far by the request, in order
    sources,        \* the three data files of settings.DATA_DIR
    prereq_map,     \* KnowledgeBase._prereq_map: code -> list of PrerequisiteRule
    inflight,       \* the analyses running side by side on the shared singleton
    call            \* a function applied on its own: its arguments and result

vars == <<build, metadata_map, relevance_map, doc, weights, pc, config,
          transcript, response, effects, sources, prereq_map, inflight,
          call>>

\* Optional values: <<>> is None, <<x>> is the value x.
None == <<>>

Builds == {"app", "streamlit"}

\* ---------------------------------------------------------------- bounds

\* courses of the knowledge base in the engine runs
MaxCourses == 5

Codes == 1 .. MaxCourses

\* lines of a document, and distinct course codes printed in it
MaxLines == 2

MaxDocCodes == 2

DocCodes == 1 .. MaxDocCodes

\* ------------------------------------------------------------- arithmetic

Abs(x) == IF x < 0 THEN -x ELSE x

Max(a, b) == IF a >= b THEN a ELSE b

RECURSIVE Gcd(_, _)
Gcd(a, b) == IF b = 0 THEN a ELSE Gcd(b, a % b)

\* the fraction n/d (d > 0, n >= 0) in lowest terms
Frac(n, d) == LET g == Gcd(n, d) IN <<n \div g, d \div g>>

Zero == <<0, 1>>

One == <<1, 1>>

FracLeq(x, y) == x[1] * y[2] <= y[1] * x[2]

FracMin(x, y) == IF FracLeq(x, y) THEN x ELSE y

RECURSIVE SumOver(_, _)
SumOver(S, f) ==
    IF S = {} THEN 0
    ELSE LET x == CHOOSE y \in S : TRUE IN f[x] + SumOver(S \ {x}, f)

\* ------------------------------------------------------------------ enums

ProfileType == <<"AI", "DMS", "PSD", "INFRA">>

ProfileSet == {ProfileType[i] : i \in 1 .. Len(ProfileType)}

FOUNDATION == "FOUNDATION"

COMPETENCY == "COMPETENCY"

\* -------------------------------------------------------- inference engine

\* ahp_service.py: student_history / student_grades, a dict keyed by code;
\* a later course with the same code overwrites an earlier one.
StudentHistory(courses) ==
    [c \in {courses[i].code : i \in 1 .. Len(courses)} |->
        LET last == CHOOSE i \in 1 .. Len(courses) :
                        /\ courses[i].code = c
                        /\ \A j \in 1 .. Len(courses) :
                               courses[j].code = c => j <= i
        IN courses[last].grade_value]

\* next((r for r in rules if r.profile == profile and r.type == c_type), None):
\* <<>> for None, <<r>> for the first matching rule
RelevantRule(rules, profile, c_type) ==
    LET hits == {i \in 1 .. Len(rules) :
                    rules[i].profile = profile /\ rules[i].type = c_type}
    IN IF hits = {} THEN <<>>
       ELSE <<rules[CHOOSE i \in hits : \A j \in hits : i <= j]>>

\* the codes of the mapping that carry a rule for (profile, c_type)
AvailableCourses(rmap, profile, c_type) ==
    {code \in DOMAIN rmap : RelevantRule(rmap[code], profile, c_type) # <<>>}

TakenMatches(rmap, profile, c_type, history) ==
    AvailableCourses(rmap, profile, c_type) \cap DOMAIN history

\* A quality score that divides by the weights of all the courses of the
\* pair, taken or not.
QualityOverAvailable(rmap, profile, c_type, history) ==
    LET taken == TakenMatches(rmap, profile, c_type, history)
        available == AvailableCourses(rmap, profile, c_type)
        weight == [code \in available |->
                      RelevantRule(rmap[code], profile, c_type)[1].relevance_weight]
        total_weighted_points ==
            SumOver(taken, [code \in taken |-> history[code] * weight[code]])
        total_max_points == SumOver(available, weight)
    IN IF total_max_points = 0 THEN Zero
       ELSE Frac(total_weighted_points, 40 * total_max_points)

\* _calculate_quality_score / _calculate_weighted_quality (same in both builds)
CalculateQualityScore(rmap, profile, c_type, history) ==
    LET taken == TakenMatches(rmap, profile, c_type, history)
        weight == [code \in taken |->
                      RelevantRule(rmap[code], profile, c_type)[1].relevance_weight]
        total_weighted_points ==
            SumOver(taken, [code \in taken |-> history[code] * weight[code]])
        total_max_points == SumOver(taken, weight)
    IN IF total_max_points = 0 THEN Zero
       ELSE Frac(total_weighted_points, 40 * total_max_points)

SATURATION_THRESHOLD == 4

\* app build: len(taken_matches) / len(available_courses)
DensityPlainRatio(rmap, profile, c_type, history) ==
    LET available == Cardinality(AvailableCourses(rmap, profile, c_type))
        taken == Cardinality(TakenMatches(rmap, profile, c_type, history))
    IN IF available = 0 THEN Zero ELSE Frac(taken, available)

\* A saturation that counts every course of the history as an elective of
\* the profile.
DensityOfAllTaken(rmap, profile, c_type, history) ==
    LET available == Cardinality(AvailableCourses(rmap, profile, c_type))
        taken == Cardinality(DOMAIN history)
    IN IF available = 0 THEN Zero
       ELSE IF c_type = FOUNDATION THEN Frac(taken, available)
       ELSE FracMin(Frac(taken, SATURATION_THRESHOLD), One)

\* streamlit build: linear for FOUNDATION, capped at 4 electives for COMPETENCY
DensitySaturated(rmap, profile, c_type, history) ==
    LET available == Cardinality(AvailableCourses(rmap, profile, c_type))
        taken == Cardinality(TakenMatches(rmap, profile, c_type, history))
    IN IF available = 0 THEN Zero
       ELSE IF c_type = FOUNDATION THEN Frac(taken, available)
       ELSE FracMin(Frac(taken, SATURATION_THRESHOLD), One)

CalculateDensity(b, rmap, profile, c_type, history) ==
    IF b = "app" THEN DensityPlainRatio(rmap, profile, c_type, history)
    ELSE DensitySaturated(rmap, profile, c_type, history)

\* An exact value a + n/d in millionths, with 0 <= n/d < 1 in lowest terms.
Exact(a, n, d) ==
    LET f == Frac(n % d, d)
    IN [units |-> a + (n \div d), num |-> f[1], den |-> f[2]]

\* (f * w_foundation) + (c * w_competency) + (d * w_density)
Synthesis(f, c, d, cfg) ==
    LET x1 == f[1] * cfg.w_foundation
        x2 == c[1] * cfg.w_competency
        x3 == d[1] * cfg.w_density
        a == (x1 \div f[2]) + (x2 \div c[2]) + (x3 \div d[2])
        n == (x1 % f[2]) * c[2] * d[2]
             + (x2 % c[2]) * f[2] * d[2]
             + (x3 % d[2]) * f[2] * c[2]
    IN Exact(a, n, f[2] * c[2] * d[2])

\* round(x, 4) of an exact value in millionths: the nearest ten-thousandth,
\* a tie going to the even one.
Round4(x) ==
    LET q == x.units \div 100
        r == x.units % 100
    IN IF r > 50 \/ (r = 50 /\ x.num > 0) THEN q + 1
       ELSE IF r < 50 THEN q
       ELSE IF q % 2 = 0 THEN q ELSE q + 1

\* round(score, 4) of a score fraction
Round4Frac(s) == Round4(Exact(0, s[1] * 1000000, s[2]))

\* x > n/d and x < n/d for a score fraction x
FracGt(x, n, d) == x[1] * d > n * x[2]

FracLt(x, n, d) == x[1] * d < n * x[2]

\* app build, _generate_explanation: the bands in order
ExplanationApp(f, c, d) ==
    IF FracGt(c, 7, 10) THEN "Highly recommended"
    ELSE IF FracGt(f, 7, 10) /\ FracLt(d, 2, 10) THEN "High Potential"
    ELSE IF FracGt(d, 3, 10) THEN "Good match"
    ELSE "Moderate match"

\* The bands of the streamlit build with the catch-all band tested before
\* the last threshold band.
ExplanationCatchAllEarly(f, c, d) ==
    IF FracGt(c, 3, 4) /\ d = One THEN "Excellent Candidate"
    ELSE IF FracGt(c, 3, 4) /\ FracLt(d, 1, 2) THEN "Strong Potential"
    ELSE IF FracGt(f, 3, 4) /\ FracLt(c, 1, 2) THEN "Solid Foundation"
    ELSE IF FracGt(d, 8, 10) /\ FracLt(c, 1, 2)
        THEN "High Interest, Low Performance"
    ELSE "Moderate Match"

\* streamlit build, _generate_explanation: HIGH = 0.75, MID = 0.5
ExplanationStreamlit(f, c, d) ==
    IF FracGt(c, 3, 4) /\ d = One THEN "Excellent Candidate"
    ELSE IF FracGt(c, 3, 4) /\ FracLt(d, 1, 2) THEN "Strong Potential"
    ELSE IF FracGt(f, 3, 4) /\ FracLt(c, 1, 2) THEN "Solid Foundation"
    ELSE IF FracGt(d, 8, 10) /\ FracLt(c, 1, 2)
        THEN "High Interest, Low Performance"
    ELSE IF FracLt(f, 1, 2) /\ FracLt(c, 1, 2) THEN "Weak Match"
    ELSE "Moderate Match"

GenerateExplanation(b, f, c, d) ==
    IF b = "app" THEN ExplanationApp(f, c, d) ELSE ExplanationStreamlit(f, c, d)

\* The body of "for profile in ProfileType": one ProfileRecommendation, rank=0
Recommend(b, rmap, history, cfg, profile) ==
    LET f_score == CalculateQualityScore(rmap, profile, FOUNDATION, history)
        c_score == CalculateQualityScore(rmap, profile, COMPETENCY, history)
        d_score == CalculateDensity(b, rmap, profile, COMPETENCY, history)
        final_score == Synthesis(f_score, c_score, d_score, cfg)
    IN [profile |-> profile,
        rank |-> 0,
        score |-> Round4(final_score),
        details |-> [foundation_score |-> Round4Frac(f_score),
                     competency_score |-> Round4Frac(c_score),
                     density_score |-> Round4Frac(d_score),
                     final_ahp_score |-> Round4(final_score)],
        explanation |-> GenerateExplanation(b, f_score, c_score, d_score)]

\* A sort that puts an element before the elements of equal score.
InsertBeforeEqual(sorted, x) ==
    LET k == Cardinality({i \in 1 .. Len(sorted) : sorted[i].score > x.score})
    IN SubSeq(sorted, 1, k) \o <<x>> \o SubSeq(sorted, k + 1, Len(sorted))

\* list.sort(key=score, reverse=True) is stable: an element goes behind every
\* element already placed whose score is at least its own.
InsertDescending(sorted, x) ==
    LET k == Cardinality({i \in 1 .. Len(sorted) : sorted[i].score >= x.score})
    IN SubSeq(sorted, 1, k) \o <<x>> \o SubSeq(sorted, k + 1, Len(sorted))

RECURSIVE SortDescending(_)
SortDescending(recs) ==
    IF recs = <<>> THEN <<>>
    ELSE InsertDescending(SortDescending(SubSeq(recs, 1, Len(recs) - 1)),
                          recs[Len(recs)])

\* for i, rec in enumerate(recommendations): rec.rank = i + 1
AssignRanks(recs) == [i \in 1 .. Len(recs) |-> [recs[i] EXCEPT !.rank = i]]

\* A total that counts the courses instead of adding their credits.
CountCourses(courses) == Len(courses)

\* sum(c.sks for c in transcript.courses)
TotalCredits(courses) ==
    SumOver(1 .. Len(courses), [i \in 1 .. Len(courses) |-> courses[i].sks])

\* AHPService.analyze_transcript
AnalyzeTranscript(b, rmap, t, cfg) ==
    LET history == StudentHistory(t.courses)
        recommendations ==
            [i \in 1 .. Len(ProfileType) |->
                Recommend(b, rmap, history, cfg, ProfileType[i])]
    IN [status |-> "success",
        student_metadata |-> [name |-> t.student_name,
                              id |-> t.student_id,
                              gpa |-> t.gpa_raw],
        total_credits |-> TotalCredits(t.courses),
        recommendations |-> AssignRanks(SortDescending(recommendations))]

\* ------------------------------------------------------ weight configuration

\* A comparison with an absolute tolerance of 0.001
IsWithinThousandth(total) == Abs(total - 1000000) < 1000

\* math.isclose(total, 1.0, rel_tol=1e-5) with totals in millionths:
\* abs(total - 1.0) <= 1e-5 * max(abs(total), 1.0)
IsCloseToOne(total) ==
    Abs(total - 1000000) <= Max(Abs(total), 1000000) \div 100000

\* AHPConfig.check_weights_sum_to_one; the fields carry no bound of their own
CheckWeightsSumToOne(w) ==
    IsCloseToOne(w.w_foundation + w.w_competency + w.w_density)

\* AHPConfig(w_foundation=..., w_competency=..., w_density=...):
\* <<the configuration>>, or <<>> when the validator raises ValidationError
AHPConfig(w) == IF CheckWeightsSumToOne(w) THEN <<w>> ELSE <<>>

\* ------------------------------------------------------- transcript parser

ParsedCourse(code, name, sks, letter, value) ==
    [code |-> code, name |-> name, sks |-> sks,
     grade_letter |-> letter, grade_value |-> value]


\* An upload is [content_type, empty, readable, broken_page, nim, nama, ipk,
\* lines]: empty says the file has no bytes, readable that pdfplumber opens it,
\* broken_page that page.extract_text() raises on a page behind the pages that
\* gave the lines.
\* A line of text is
\*   code   : 0 when CODE_PATTERN finds no course code, else the code found
\*   sks    : the credit digits printed on the line
\*   grades : the grade tokens written on the line behind the credits, left to
\*            right, each [letter, sign, glued]; glued says that a word
\*            character follows the sign directly
Token(letter, sign, glued) == [letter |-> letter, sign |-> sign, glued |-> glued]

\* GRADE_MAP.get(grade_letter, 0.0), in tenths
GradeMap(g) ==
    CASE g = "A" -> 40
      [] g = "A-" -> 37
      [] g = "B+" -> 33
      [] g = "B" -> 30
      [] g = "B-" -> 27
      [] g = "C+" -> 23
      [] g = "C" -> 20
      [] g = "D" -> 10
      [] g = "E" -> 0
      [] OTHER -> 0

\* What \b([A-E][+-]?)\b captures of one written token: the sign is kept only
\* when a word character follows it, else the closing \b falls between the
\* letter and the sign.
CaptureBounded(tok) ==
    IF tok.sign # "" /\ tok.glued THEN tok.letter \o tok.sign ELSE tok.letter

\* What ([A-E][+-]?) captures of one written token
CaptureUnbounded(tok) == tok.letter \o tok.sign

\* GRADE_PATTERN.findall(line)
GradeFindall(line) ==
    [i \in 1 .. Len(line.grades) |-> CaptureBounded(line.grades[i])]

\* ParsedCourse(...) raises when sks is outside 1..6 or grade_value outside 0..4
ParsedCourseValid(sks, value) == 1 <= sks /\ sks <= 6 /\ 0 <= value /\ value <= 40

\* A loop body that forgets seen_codes: every graded line of a known code is
\* appended.
ScanLineNoSeen(line, meta, st) ==
    IF line.code = 0 \/ line.grades = <<>> \/ line.code \notin DOMAIN meta
    THEN st
    ELSE LET letter == CaptureBounded(line.grades[Len(line.grades)])
             m == meta[line.code]
         IN [results |-> Append(st.results,
                 ParsedCourse(m.code, m.name, m.sks, letter, GradeMap(letter))),
             seen_codes |-> st.seen_codes]

\* One pass of the loop body of _scan_lines_for_courses (app build) over
\* st = [results, seen_codes]
ScanLine(line, meta, st) ==
    IF line.code = 0 THEN st
    ELSE LET grade_matches == GradeFindall(line)
         IN IF grade_matches = <<>> THEN st
            ELSE IF line.code \in st.seen_codes THEN st
            ELSE IF line.code \notin DOMAIN meta THEN st
            ELSE LET grade_letter == grade_matches[Len(grade_matches)]
                     grade_val == GradeMap(grade_letter)
                     m == meta[line.code]
                 IN IF ~ParsedCourseValid(m.sks, grade_val) THEN st
                    ELSE [results |-> Append(st.results,
                              ParsedCourse(m.code, m.name, m.sks,
                                           grade_letter, grade_val)),
                          seen_codes |-> st.seen_codes \cup {line.code}]

\* A loop body that puts the code into seen_codes before the record is built.
ExtractMatchSeenFirst(line, meta, st) ==
    IF line.code = 0 \/ line.grades = <<>> THEN st
    ELSE IF line.code \in st.seen_codes THEN st
    ELSE LET grade_letter == CaptureUnbounded(line.grades[1])
             known == line.code \in DOMAIN meta
             course_name == IF known THEN meta[line.code].name
                            ELSE "Unknown Course (YAML Missing)"
             sks_val == IF known THEN meta[line.code].sks ELSE line.sks
             grade_val == GradeMap(grade_letter)
         IN IF ~ParsedCourseValid(sks_val, grade_val)
                THEN [st EXCEPT !.seen_codes = @ \cup {line.code}]
            ELSE [results |-> Append(st.results,
                      ParsedCourse(line.code, course_name, sks_val,
                                   grade_letter, grade_val)),
                  seen_codes |-> st.seen_codes \cup {line.code}]

\* One pass of the loop body of _extract_courses (streamlit build): the match
\* (code, sks_str, grade_letter) of COURSE_REGEX on the line, if any
ExtractMatch(line, meta, st) ==
    IF line.code = 0 \/ line.grades = <<>> THEN st
    ELSE IF line.code \in st.seen_codes THEN st
    ELSE LET grade_letter == CaptureUnbounded(line.grades[1])
             known == line.code \in DOMAIN meta
             course_name == IF known THEN meta[line.code].name
                            ELSE "Unknown Course (YAML Missing)"
             sks_val == IF known THEN meta[line.code].sks ELSE line.sks
             grade_val == GradeMap(grade_letter)
         IN IF ~ParsedCourseValid(sks_val, grade_val) THEN st
            ELSE [results |-> Append(st.results,
                      ParsedCourse(line.code, course_name, sks_val,
                                   grade_letter, grade_val)),
                  seen_codes |-> st.seen_codes \cup {line.code}]

ScanStep(b, line, meta, st) ==
    IF b = "app" THEN ScanLine(line, meta, st) ELSE ExtractMatch(line, meta, st)

RECURSIVE ScanFrom(_, _, _, _, _)
ScanFrom(b, lines, i, meta, st) ==
    IF i > Len(lines) THEN st
    ELSE ScanFrom(b, lines, i + 1, meta, ScanStep(b, lines[i], meta, st))

\* _scan_lines_for_courses (app) / _extract_courses (streamlit)
ScanLinesForCourses(b, lines, meta) ==
    ScanFrom(b, lines, 1, meta, [results |-> <<>>, seen_codes |-> {}]).results

\* parse_pdf of the app build: unset header fields stay None, except that the
\* GPA falls back to 0.0
ParsePdfApp(d, meta) ==
    [student_id |-> d.nim,
     student_name |-> d.nama,
     courses |-> ScanLinesForCourses("app", d.lines, meta),
     gpa_raw |-> IF d.ipk = None THEN <<0>> ELSE d.ipk]

\* parse_pdf of the streamlit build: placeholders for unset header fields
ParsePdfStreamlit(d, meta) ==
    [student_id |-> IF d.nim = None THEN <<"UNKNOWN">> ELSE d.nim,
     student_name |-> IF d.nama = None THEN <<"Student">> ELSE d.nama,
     courses |-> ScanLinesForCourses("streamlit", d.lines, meta),
     gpa_raw |-> <<0>>]

\* A parse_pdf that keeps the lines of the pages read before a page failed.
ParsePdfPartial(b, d, meta) ==
    IF ~d.readable THEN <<>>
    ELSE IF b = "app" THEN <<ParsePdfApp(d, meta)>>
    ELSE <<ParsePdfStreamlit(d, meta)>>

\* parse_pdf: <<transcript>>, or <<>> when pdfplumber.open or the extraction
\* of a page raises inside the try block and ValueError ("Invalid PDF file")
\* is raised in its place
ParsePdf(b, d, meta) ==
    IF ~d.readable \/ d.broken_page THEN <<>>
    ELSE IF b = "app" THEN <<ParsePdfApp(d, meta)>>
    ELSE <<ParsePdfStreamlit(d, meta)>>

\* ------------------------------------------------- inputs of the engine runs

Rule(p, t, w) == [profile |-> p, type |-> t, relevance_weight |-> w]

\* Rule lists a course of relevance_rules.yaml may carry (weights in tenths).
RuleMenu ==
    << <<Rule("AI", COMPETENCY, 10)>>,
       <<Rule("AI", FOUNDATION, 10), Rule("DMS", COMPETENCY, 5),
         Rule("DMS", FOUNDATION, 0), Rule("PSD", FOUNDATION, 10)>> >>

\* A relevance index: each code is absent (0) or carries one list of the menu.
\* Codes are interchangeable for the engine, so the choice is taken
\* nondecreasing in the code.
RelevanceMaps ==
    {[c \in {x \in Codes : m[x] > 0} |-> RuleMenu[m[c]]] :
        m \in {f \in [Codes -> 0 .. Len(RuleMenu)] :
                  \A c \in Codes : c < MaxCourses => f[c] <= f[c + 1]}}

\* numeric grades (tenths) of the courses of an engine transcript
EngineGrades == {20, 40}

SksOf(code) == 2 + (code % 3)

RECURSIVE CoursesOf(_, _)
CoursesOf(g, c) ==
    IF c > MaxCourses THEN <<>>
    ELSE (IF g[c] < 0 THEN <<>>
          ELSE <<ParsedCourse(c, "name", SksOf(c), "letter", g[c])>>)
         \o CoursesOf(g, c + 1)

\* Transcripts with distinct codes: every code not taken (-1) or taken once.
Transcripts ==
    {[student_id |-> None, student_name |-> None,
      courses |-> CoursesOf(g, 1), gpa_raw |-> None] :
        g \in [Codes -> EngineGrades \cup {-1}]}

Weights(f, c, d) == [w_foundation |-> f, w_competency |-> c, w_density |-> d]

\* weight triples offered to construction in the engine runs (millionths)
EngineWeightTriples ==
    {Weights(f, c, d) : f \in {-500000, 200000, 500000},
                        c \in {200000, 500000, 1000000},
                        d \in {300000, 500000}}
        \cup {Weights(499998, 200002, 300000)}

\* the configurations construction accepts among them
AcceptedConfigs ==
    {AHPConfig(w)[1] : w \in {x \in EngineWeightTriples : AHPConfig(x) # <<>>}}

\* ------------------------------------------------------------- engine runs

EngineInit ==
    /\ call = <<>>
    /\ sources = <<>>
    /\ prereq_map = <<>>
    /\ inflight = <<>>
    /\ build \in Builds
    /\ relevance_map \in RelevanceMaps
    /\ transcript \in {<<t>> : t \in Transcripts}
    /\ config \in {<<c>> : c \in AcceptedConfigs}
    /\ metadata_map = <<>>
    /\ doc = <<>>
    /\ weights = <<>>
    /\ response = None
    /\ effects = <<>>
    /\ pc = "analyze"

\* ahp_service.analyze_transcript(transcript, config)
Analyze ==
    /\ pc = "analyze"
    /\ response' = <<AnalyzeTranscript(build, relevance_map, transcript[1],
                                       config[1])>>
    /\ pc' = "done"
    /\ UNCHANGED <<call, sources, prereq_map, inflight,
                   build, metadata_map, relevance_map, doc, weights, config,
                   transcript, effects>>

EngineNext == Analyze

SpecEngine == EngineInit /\ [][EngineNext]_vars

\* ------------------------------------------------- inputs of the parser runs

\* CourseMetadata of courses.yaml: creditUnits is an integer in 1..6
CourseMetadata(code) == [code |-> code, name |-> "kb-name", sks |-> SksOf(code)]

\* metadata indices: any subset of the document's codes is known
MetadataMaps == {[c \in K |-> CourseMetadata(c)] : K \in SUBSET DocCodes}

\* the credit digits a document prints beside a code
DocSksOf(code) == IF code % 2 = 0 THEN 0 ELSE 4

\* the grade tokens a line may carry
GradeLists ==
    {<<>>,
     <<Token("A", "", FALSE)>>,
     <<Token("B", "+", FALSE)>>,
     <<Token("A", "", FALSE), Token("C", "", FALSE)>>,
     <<Token("D", "+", TRUE)>>}

\* the lines of a document; one line prints course 2 with credits the record
\* accepts
Lines ==
    {[code |-> c, sks |-> DocSksOf(c), grades |-> g] :
        c \in 0 .. MaxDocCodes, g \in GradeLists}
        \cup {[code |-> 2, sks |-> 4, grades |-> <<Token("B", "+", FALSE)>>]}

SeqsUpTo(S, n) == UNION {[1 .. k -> S] : k \in 0 .. n}

Headers ==
    {[nim |-> None, nama |-> None, ipk |-> None],
     [nim |-> <<"71200001">>, nama |-> <<"Alexandro">>, ipk |-> <<345>>]}

NoHeader == [nim |-> None, nama |-> None, ipk |-> None]

Document(readable, h, lines) ==
    [content_type |-> "application/pdf", empty |-> FALSE,
     readable |-> readable, broken_page |-> FALSE,
     nim |-> h.nim, nama |-> h.nama, ipk |-> h.ipk,
     lines |-> lines]

\* the same document with a page behind its lines whose extraction raises
BrokenPage(d) == [d EXCEPT !.broken_page = TRUE]

\* bytes pdfplumber cannot open
Unreadable == Document(FALSE, NoHeader, <<>>)

\* a file of zero bytes, which pdfplumber cannot open either
EmptyFile == [Unreadable EXCEPT !.empty = TRUE]

Documents ==
    LET whole == {Document(TRUE, h, ls) :
                     h \in Headers, ls \in SeqsUpTo(Lines, MaxLines)}
    IN whole \cup {BrokenPage(d) : d \in whole} \cup {Unreadable, EmptyFile}

\* ------------------------------------------------------------- parser runs

ParserInit ==
    /\ call = <<>>
    /\ sources = <<>>
    /\ prereq_map = <<>>
    /\ inflight = <<>>
    /\ build \in Builds
    /\ metadata_map \in MetadataMaps
    /\ doc \in Documents
    /\ relevance_map = <<>>
    /\ weights = <<>>
    /\ config = None
    /\ transcript = None
    /\ response = None
    /\ effects = <<>>
    /\ pc = "parse"

\* parser_service.parse_pdf(contents) returns a transcript
Parse ==
    /\ pc = "parse"
    /\ ParsePdf(build, doc, metadata_map) # <<>>
    /\ transcript' = ParsePdf(build, doc, metadata_map)
    /\ response' = <<[status |-> "parsed"]>>
    /\ pc' = "done"
    /\ UNCHANGED <<call, sources, prereq_map, inflight,
                   build, metadata_map, relevance_map, doc, weights, config,
                   effects>>

\* parser_service.parse_pdf(contents) raises ValueError
ParseFails ==
    /\ pc = "parse"
    /\ ParsePdf(build, doc, metadata_map) = <<>>
    /\ response' = <<[status |-> "ValueError"]>>
    /\ pc' = "done"
    /\ UNCHANGED <<call, sources, prereq_map, inflight,
                   build, metadata_map, relevance_map, doc, weights, config,
                   transcript, effects>>

ParserNext == Parse \/ ParseFails

SpecParser == ParserInit /\ [][ParserNext]_vars

\* ----------------------------------------------------------- request runs

\* The knowledge base of the request runs: course 1 is in the catalog and
\* carries a rule, course 2 is in neither.
RequestMetadata == [c \in {1} |-> CourseMetadata(c)]

RequestRelevance == [c \in {1} |-> RuleMenu[1]]

RequestLine(code) ==
    [code |-> code, sks |-> DocSksOf(code), grades |-> <<Token("A", "", FALSE)>>]

\* a header that prints the three identity fields
FullHeader == [nim |-> <<"71200001">>, nama |-> <<"Alexandro">>, ipk |-> <<345>>]

RequestDocuments ==
    {Unreadable, EmptyFile,
     Document(TRUE, NoHeader, <<>>),
     Document(TRUE, NoHeader, <<RequestLine(2)>>),
     Document(TRUE, NoHeader, <<RequestLine(1)>>),
     Document(TRUE, FullHeader, <<RequestLine(1), RequestLine(3)>>)}

ContentTypes == {"application/pdf", "text/plain"}

\* weights of a request, in millionths
RequestWeightValues ==
    {-500000, 200000, 299989, 299990, 300000, 300010, 300011, 500000, 1000000}

Response(status, detail, body) == [status |-> status, detail |-> detail, body |-> body]

Exception(type, status, detail) == [type |-> type, status |-> status, detail |-> detail]

\* The except clauses of analyze_student_transcript, in order:
\* ValidationError, ValueError, Exception
HandleException(exc) ==
    IF exc.type = "ValidationError"
        THEN Response(400, "Invalid AHP Configuration", None)
    ELSE IF exc.type = "ValueError" THEN Response(422, exc.detail, None)
    ELSE Response(500, "Internal Server Error during profiling.", None)

RequestInit ==
    /\ call = <<>>
    /\ sources = <<>>
    /\ prereq_map = <<>>
    /\ inflight = <<>>
    /\ build \in Builds
    /\ metadata_map = RequestMetadata
    /\ relevance_map = RequestRelevance
    /\ \E d \in RequestDocuments, ct \in ContentTypes :
           /\ build = "streamlit" => ct = "application/pdf"
           /\ doc = [d EXCEPT !.content_type = ct]
    /\ weights \in {Weights(f, c, d) : f \in RequestWeightValues,
                                       c \in RequestWeightValues,
                                       d \in RequestWeightValues}
    /\ config = None
    /\ transcript = None
    /\ response = None
    /\ effects = <<>>
    /\ pc = "start"

Finish(r) == response' = <<r>> /\ pc' = "done"

\* profile.py: the content-type check, made before the try block
HttpRejectFileType ==
    /\ pc = "start" /\ build = "app"
    /\ doc.content_type # "application/pdf"
    /\ Finish(Response(400, "Invalid file type. Only PDF is supported.", None))
    /\ UNCHANGED <<call, sources, prereq_map, inflight,
                   build, metadata_map, relevance_map, doc, weights, config,
                   transcript, effects>>

\* profile.py: 1. Configure AHP
HttpConfigure ==
    /\ pc = "start" /\ build = "app"
    /\ doc.content_type = "application/pdf"
    /\ config' = AHPConfig(weights)
    /\ effects' = Append(effects, "config")
    /\ IF config' = None
           THEN Finish(HandleException(
                    Exception("ValidationError", 0, "AHP Weights must sum to 1.0")))
           ELSE pc' = "read" /\ UNCHANGED response
    /\ UNCHANGED <<call, sources, prereq_map, inflight,
                   build, metadata_map, relevance_map, doc, weights, transcript>>

\* profile.py: 2. Read File
HttpRead ==
    /\ pc = "read" /\ build = "app"
    /\ effects' = Append(effects, "read")
    /\ IF doc.empty
           THEN Finish(HandleException(
                    Exception("HTTPException", 400, "File is empty.")))
           ELSE pc' = "parse" /\ UNCHANGED response
    /\ UNCHANGED <<call, sources, prereq_map, inflight,
                   build, metadata_map, relevance_map, doc, weights, config,
                   transcript>>

\* profile.py: 3. Parse PDF
HttpParse ==
    /\ pc = "parse" /\ build = "app"
    /\ effects' = Append(effects, "parse")
    /\ LET t == ParsePdf(build, doc, metadata_map)
       IN IF t = <<>>
              THEN /\ Finish(HandleException(Exception("ValueError", 0,
                           "Invalid PDF file or corrupted format.")))
                   /\ UNCHANGED transcript
              ELSE transcript' = t /\ pc' = "validate" /\ UNCHANGED response
    /\ UNCHANGED <<call, sources, prereq_map, inflight,
                   build, metadata_map, relevance_map, doc, weights, config>>

\* profile.py: 4. Validate Extraction
HttpValidate ==
    /\ pc = "validate" /\ build = "app"
    /\ IF transcript[1].courses = <<>>
           THEN Finish(HandleException(Exception("HTTPException", 422,
                    "Could not extract any courses.")))
           ELSE pc' = "infer" /\ UNCHANGED response
    /\ UNCHANGED <<call, sources, prereq_map, inflight,
                   build, metadata_map, relevance_map, doc, weights, config,
                   transcript, effects>>

\* profile.py: 5. Run Inference
HttpInfer ==
    /\ pc = "infer" /\ build = "app"
    /\ effects' = Append(effects, "analyze")
    /\ Finish(Response(200, "success",
            <<AnalyzeTranscript(build, relevance_map, transcript[1], config[1])>>))
    /\ UNCHANGED <<call, sources, prereq_map, inflight,
                   build, metadata_map, relevance_map, doc, weights, config,
                   transcript>>

\* streamlit_app.py: abs(sum(weights.values()) - 1.0) > 0.01, before the client
\* is called
UiCheckWeights ==
    /\ pc = "start" /\ build = "streamlit"
    /\ IF Abs(weights.w_foundation + weights.w_competency + weights.w_density
              - 1000000) > 10000
           THEN Finish(Response(0,
                    "Error: The sum of the weights must be exactly 1.0.", None))
           ELSE pc' = "read" /\ UNCHANGED response
    /\ UNCHANGED <<call, sources, prereq_map, inflight,
                   build, metadata_map, relevance_map, doc, weights, config,
                   transcript, effects>>

\* api_client.analyze_transcript: 1. content = file.read()
ClientRead ==
    /\ pc = "read" /\ build = "streamlit"
    /\ effects' = Append(effects, "read")
    /\ pc' = "parse"
    /\ UNCHANGED <<call, sources, prereq_map, inflight,
                   build, metadata_map, relevance_map, doc, weights, config,
                   transcript, response>>

\* api_client.analyze_transcript: 2. parse_pdf; a failure goes to except Exception
ClientParse ==
    /\ pc = "parse" /\ build = "streamlit"
    /\ effects' = Append(effects, "parse")
    /\ LET t == ParsePdf(build, doc, metadata_map)
       IN IF t = <<>>
              THEN /\ Finish(Response(0, "Analysis Failed: Invalid PDF file.", None))
                   /\ UNCHANGED transcript
              ELSE transcript' = t /\ pc' = "check" /\ UNCHANGED response
    /\ UNCHANGED <<call, sources, prereq_map, inflight,
                   build, metadata_map, relevance_map, doc, weights, config>>

\* api_client.analyze_transcript: if not transcript.courses
ClientCheck ==
    /\ pc = "check" /\ build = "streamlit"
    /\ IF transcript[1].courses = <<>>
           THEN Finish(Response(0, "No courses found in PDF.", None))
           ELSE pc' = "config" /\ UNCHANGED response
    /\ UNCHANGED <<call, sources, prereq_map, inflight,
                   build, metadata_map, relevance_map, doc, weights, config,
                   transcript, effects>>

\* api_client.analyze_transcript: 3. Create Config Object
ClientConfigure ==
    /\ pc = "config" /\ build = "streamlit"
    /\ config' = AHPConfig(weights)
    /\ effects' = Append(effects, "config")
    /\ IF config' = None
           THEN Finish(Response(0,
                    "Analysis Failed: AHP Weights must sum to 1.0", None))
           ELSE pc' = "infer" /\ UNCHANGED response
    /\ UNCHANGED <<call, sources, prereq_map, inflight,
                   build, metadata_map, relevance_map, doc, weights, transcript>>

\* api_client.analyze_transcript: 4. Analyze, 5. model_dump
ClientAnalyze ==
    /\ pc = "infer" /\ build = "streamlit"
    /\ effects' = Append(effects, "analyze")
    /\ Finish(Response(0, "success",
            <<AnalyzeTranscript(build, relevance_map, transcript[1], config[1])>>))
    /\ UNCHANGED <<call, sources, prereq_map, inflight,
                   build, metadata_map, relevance_map, doc, weights, config,
                   transcript>>

RequestNext ==
    \/ HttpRejectFileType
    \/ HttpConfigure
    \/ HttpRead
    \/ HttpParse
    \/ HttpValidate
    \/ HttpInfer
    \/ UiCheckWeights
    \/ ClientRead
    \/ ClientParse
    \/ ClientCheck
    \/ ClientConfigure
    \/ ClientAnalyze

SpecRequest == RequestInit /\ [][RequestNext]_vars

\* ----------------------------------------------------------- knowledge base

\* A value as yaml.safe_load returns it: None, a number, a text, a mapping
\* (its <<key, value>> pairs in file order) or a sequence. The text of a course
\* code is written as an integer: c is the code in capitals, c + 100 the same
\* code in small letters, c + 200 and c + 300 the two with blanks around them;
\* 0 is the text "SKS".
PyNone == [kind |-> "none", v |-> 0]

PyNum(n) == [kind |-> "num", v |-> n]

PyStr(s) == [kind |-> "str", v |-> s]

PyDict(items) == [kind |-> "dict", items |-> items]

PyList(items) == [kind |-> "list", items |-> items]

\* bool(value)
Truthy(value) ==
    CASE value.kind = "none" -> FALSE
      [] value.kind = "num" -> value.v # 0
      [] value.kind = "str" -> TRUE
      [] OTHER -> value.items # <<>>

\* str.upper() and str.strip() on the text of a course code
Upper(s) == IF (s \div 100) % 2 = 1 THEN s - 100 ELSE s

Strip(s) == IF s >= 200 THEN s - 200 ELSE s

\* code_raw.upper().strip()
NormalizeCode(s) == Strip(Upper(s))

\* A data file of settings.DATA_DIR
SourceFile(exists, readable, content) ==
    [exists |-> exists, readable |-> readable, content |-> content]

\* A _load_yaml that answers None for a file it cannot give.
LoadYamlNone(file) ==
    IF ~file.exists \/ ~file.readable THEN PyNone ELSE file.content

\* KnowledgeBase._load_yaml: {} for a file that does not exist or whose
\* reading raises, else what yaml.safe_load returns
LoadYaml(file) ==
    IF ~file.exists THEN PyDict(<<>>)
    ELSE IF ~file.readable THEN PyDict(<<>>)
    ELSE file.content

\* CourseMetadata(code=..., name=..., sks=...)
CourseMetadataOf(code, name, sks) == [code |-> code, name |-> name, sks |-> sks]

\* An entry of courses.yaml: a mapping with the keys code, name, sks (code is
\* PyNone when the key is absent), or something that is no mapping.
CourseEntry(code, name, sks) ==
    [kind |-> "dict", code |-> code, name |-> name, sks |-> sks]

NoMappingEntry == [kind |-> "str", code |-> PyNone, name |-> "", sks |-> 0]

\* The loop of _build_metadata_map. entry.get or .strip() raising on an entry
\* that is no mapping or whose code is no text is caught and the entry
\* skipped; an entry without code is skipped by "if code".
RECURSIVE MetadataFrom(_, _, _)
MetadataFrom(entries, i, mapping) ==
    IF i > Len(entries) THEN mapping
    ELSE LET entry == entries[i]
         IN IF entry.kind # "dict" \/ entry.code.kind # "str"
                THEN MetadataFrom(entries, i + 1, mapping)
            ELSE LET code == Upper(Strip(entry.code.v))
                 IN MetadataFrom(entries, i + 1,
                        (code :> CourseMetadataOf(code, entry.name, entry.sks))
                            @@ mapping)

\* KnowledgeBase._build_metadata_map
BuildMetadataMap(raw_courses) ==
    IF ~Truthy(raw_courses) THEN <<>>
    ELSE IF raw_courses.kind = "list" THEN MetadataFrom(raw_courses.items, 1, <<>>)
    ELSE <<>>

\* One pass of "for profile_str, weight in profiles_dict.items()": <<rule>>, or
\* <<>> when ProfileType(profile_str), float(weight) or CourseRelevance(...)
\* raises and the except clauses log it
RuleOfPair(pair, criteria_type) ==
    LET profile_str == pair[1]
        weight == pair[2]
    IN IF profile_str \notin ProfileSet THEN <<>>
       ELSE IF weight.kind # "num" THEN <<>>
       ELSE IF weight.v < 0 \/ weight.v > 10 THEN <<>>
       ELSE <<Rule(profile_str, criteria_type, weight.v)>>

RECURSIVE RulesFrom(_, _, _)
RulesFrom(pairs, i, criteria_type) ==
    IF i > Len(pairs) THEN <<>>
    ELSE RuleOfPair(pairs[i], criteria_type) \o RulesFrom(pairs, i + 1, criteria_type)

\* A loop over the pairs that gives up the course at the first pair it cannot
\* load.
RECURSIVE RulesUntilInvalidFrom(_, _, _)
RulesUntilInvalidFrom(pairs, i, criteria_type) ==
    IF i > Len(pairs) \/ RuleOfPair(pairs[i], criteria_type) = <<>> THEN <<>>
    ELSE RuleOfPair(pairs[i], criteria_type)
             \o RulesUntilInvalidFrom(pairs, i + 1, criteria_type)

RulesUntilInvalid(pairs, criteria_type) ==
    RulesUntilInvalidFrom(pairs, 1, criteria_type)

\* "for profile_str, weight in profiles_dict.items()" with its try block: the
\* rules of the pairs that load, in file order
RulesOfMapping(pairs, criteria_type) == RulesFrom(pairs, 1, criteria_type)

\* "for code_raw, profiles_dict in section_data.items()" over
\* st = [raised, map]. code_raw.upper() and profiles_dict.items() stand outside
\* the try block: what they raise leaves _build_relevance_map.
RECURSIVE SectionFrom(_, _, _, _)
SectionFrom(items, i, criteria_type, st) ==
    IF st.raised \/ i > Len(items) THEN st
    ELSE LET code_raw == items[i][1]
             profiles_dict == items[i][2]
         IN IF code_raw.kind # "str" THEN [st EXCEPT !.raised = TRUE]
            ELSE LET code == Strip(Upper(code_raw.v))
                     mapping == IF code \in DOMAIN st.map THEN st.map
                                ELSE (code :> <<>>) @@ st.map
                 IN IF ~Truthy(profiles_dict)
                        THEN SectionFrom(items, i + 1, criteria_type,
                                         [st EXCEPT !.map = mapping])
                    ELSE IF profiles_dict.kind # "dict"
                        THEN [raised |-> TRUE, map |-> mapping]
                    ELSE SectionFrom(items, i + 1, criteria_type,
                             [st EXCEPT !.map =
                                 [mapping EXCEPT ![code] =
                                     @ \o RulesOfMapping(profiles_dict.items,
                                                         criteria_type)]])

\* self._raw_relevance[section_name]: <<>> when the key is absent
SectionData(raw, section_name) ==
    LET hits == {i \in 1 .. Len(raw.items) : raw.items[i][1] = section_name}
    IN IF hits = {} THEN <<>> ELSE <<raw.items[CHOOSE i \in hits : TRUE][2]>>

\* The body of "for section_name, criteria_type in section_map.items()"
BuildSection(raw, criteria_type, st) ==
    IF st.raised THEN st
    ELSE LET section_data == SectionData(raw, criteria_type)
         IN IF section_data = <<>> THEN st
            ELSE IF ~Truthy(section_data[1]) THEN st
            ELSE IF section_data[1].kind # "dict" THEN [st EXCEPT !.raised = TRUE]
            ELSE SectionFrom(section_data[1].items, 1, criteria_type, st)

\* A builder that keeps filling the mapping the object already holds instead
\* of starting from "mapping = {}".
BuildRelevanceMapOnto(raw_relevance) ==
    IF raw_relevance.kind = "none" \/ raw_relevance.kind = "num"
        THEN [raised |-> TRUE, map |-> <<>>]
    ELSE IF raw_relevance.kind # "dict" THEN [raised |-> FALSE, map |-> <<>>]
    ELSE BuildSection(raw_relevance, COMPETENCY,
             BuildSection(raw_relevance, FOUNDATION,
                          [raised |-> FALSE, map |-> relevance_map]))

\* KnowledgeBase._build_relevance_map: [raised, map]. "section_name not in
\* self._raw_relevance" raises TypeError when the file gave None.
BuildRelevanceMap(raw_relevance) ==
    IF raw_relevance.kind = "none" \/ raw_relevance.kind = "num"
        THEN [raised |-> TRUE, map |-> <<>>]
    ELSE IF raw_relevance.kind # "dict" THEN [raised |-> FALSE, map |-> <<>>]
    ELSE BuildSection(raw_relevance, COMPETENCY,
             BuildSection(raw_relevance, FOUNDATION,
                          [raised |-> FALSE, map |-> <<>>]))

\* The text "SKS", the key of a credit-count requirement
SKS == PyStr(0)

COURSE_GRADE == "COURSE_GRADE"

SKS_COUNT == "SKS_COUNT"

PrerequisiteRule(target, req_type, required, min_grade, min_sks) ==
    [target_course_code |-> target, req_type |-> req_type,
     required_course_code |-> required, min_grade_value |-> min_grade,
     min_sks |-> min_sks]

\* "for req_code_raw, min_grade in req_item.items()": the rules appended until
\* req_code_raw.upper() or float(min_grade) raises
RECURSIVE CourseRulesFrom(_, _, _)
CourseRulesFrom(target_code, pairs, i) ==
    IF i > Len(pairs) THEN <<>>
    ELSE IF pairs[i][1].kind # "str" \/ pairs[i][2].kind # "num" THEN <<>>
    ELSE <<PrerequisiteRule(target_code, COURSE_GRADE,
                            <<Strip(Upper(pairs[i][1].v))>>,
                            <<pairs[i][2].v>>, None)>>
             \o CourseRulesFrom(target_code, pairs, i + 1)

\* The try block of one req_item: whatever it raises is logged
ItemRules(target_code, req_item) ==
    IF req_item.kind # "dict" THEN <<>>
    ELSE LET sks == {i \in 1 .. Len(req_item.items) : req_item.items[i][1] = SKS}
         IN IF sks # {}
                THEN LET value == req_item.items[CHOOSE i \in sks : TRUE][2]
                     IN IF value.kind # "num" THEN <<>>
                        ELSE <<PrerequisiteRule(target_code, SKS_COUNT,
                                                None, None, <<value.v>>)>>
            ELSE CourseRulesFrom(target_code, req_item.items, 1)

RECURSIVE RequirementRules(_, _, _)
RequirementRules(target_code, req_list, i) ==
    IF i > Len(req_list) THEN <<>>
    ELSE ItemRules(target_code, req_list[i])
             \o RequirementRules(target_code, req_list, i + 1)

\* "for target_raw, requirements in self._raw_prereqs.items()" over
\* st = [raised, map]; target_raw.upper() stands outside the try block
RECURSIVE PrerequisitesFrom(_, _, _)
PrerequisitesFrom(items, i, st) ==
    IF st.raised \/ i > Len(items) THEN st
    ELSE LET target_raw == items[i][1]
             requirements == items[i][2]
         IN IF target_raw.kind # "str" THEN [st EXCEPT !.raised = TRUE]
            ELSE LET target_code == Strip(Upper(target_raw.v))
                     rules == IF target_code \in DOMAIN st.map THEN st.map
                              ELSE (target_code :> <<>>) @@ st.map
                     req_list == IF requirements.kind = "list"
                                 THEN requirements.items ELSE <<requirements>>
                 IN PrerequisitesFrom(items, i + 1,
                        [st EXCEPT !.map =
                            [rules EXCEPT ![target_code] =
                                @ \o RequirementRules(target_code, req_list, 1)]])

\* KnowledgeBase._build_prerequisite_map: [raised, map]
BuildPrerequisiteMap(raw_prereqs) ==
    IF ~Truthy(raw_prereqs) THEN [raised |-> FALSE, map |-> <<>>]
    ELSE IF raw_prereqs.kind # "dict" THEN [raised |-> TRUE, map |-> <<>>]
    ELSE PrerequisitesFrom(raw_prereqs.items, 1, [raised |-> FALSE, map |-> <<>>])

\* An accessor that looks the code up as it was passed.
GetCourseMetadataAsPassed(index, code) ==
    IF code \in DOMAIN index THEN <<index[code]>> ELSE None

\* get_course_metadata: self._metadata_map.get(code.upper().strip())
GetCourseMetadata(index, code) ==
    LET key == Strip(Upper(code))
    IN IF key \in DOMAIN index THEN <<index[key]>> ELSE None

\* get_relevance_rules: self._relevance_map.get(code.upper().strip(), [])
GetRelevanceRules(index, code) ==
    LET key == Strip(Upper(code))
    IN IF key \in DOMAIN index THEN index[key] ELSE <<>>

\* get_prerequisites: self._prereq_map.get(code.upper().strip(), [])
GetPrerequisites(index, code) ==
    LET key == Strip(Upper(code))
    IN IF key \in DOMAIN index THEN index[key] ELSE <<>>

\* --------------------------------------------------- inputs of the load runs

\* the code texts asked for: course 1 and a course 3 that no file names, each
\* in capitals, in small letters, and with blanks around either
QueryCodes == {c + k : c \in {1, 3}, k \in {0, 100, 200, 300}}

\* course codes as the files write them
TI1 == PyStr(1)

TI2 == PyStr(2)

\* keys that are no text (a YAML key such as 6043)
NumberKey == PyNum(6043)

\* contents of courses.yaml
CatalogContents ==
    {PyNone,
     PyDict(<<>>),
     PyList(<<CourseEntry(TI1, "name-1", 3)>>),
     PyList(<<CourseEntry(TI1, "name-1", 3), CourseEntry(TI2, "name-2", 2)>>),
     PyList(<<NoMappingEntry, CourseEntry(TI1, "name-1", 3)>>),
     PyList(<<CourseEntry(NumberKey, "name-1", 3), CourseEntry(TI2, "name-2", 2)>>),
     PyList(<<CourseEntry(PyStr(301), "name-1", 3), CourseEntry(PyNone, "name-0", 2)>>)}

\* contents of one section of relevance_rules.yaml
SectionContents ==
    {PyNone,
     PyDict(<< <<TI1, PyDict(<< <<"AI", PyNum(10)>> >>)>> >>),
     PyDict(<< <<TI1, PyDict(<< <<"ML", PyNum(5)>>, <<"AI", PyNum(10)>>,
                                <<"DMS", PyNum(15)>> >>)>> >>),
     PyDict(<< <<TI1, PyDict(<< <<"AI", PyNum(10)>>, <<"ML", PyNum(5)>>,
                                <<"PSD", PyNum(5)>> >>)>> >>),
     PyDict(<< <<TI1, PyNone>>, <<TI2, PyDict(<< <<"DMS", PyNum(5)>> >>)>> >>),
     PyDict(<< <<TI1, PyNum(1)>>, <<TI2, PyDict(<< <<"DMS", PyNum(5)>> >>)>> >>),
     PyDict(<< <<NumberKey, PyDict(<< <<"AI", PyNum(10)>> >>)>>,
               <<TI2, PyDict(<< <<"DMS", PyNum(5)>> >>)>> >>),
     PyDict(<< <<PyStr(101), PyDict(<< <<"AI", PyNum(5)>> >>)>>,
               <<TI1, PyDict(<< <<"AI", PyNum(10)>> >>)>> >>)}

\* contents of relevance_rules.yaml: each section is absent or has a content
RelevanceContents ==
    {PyNone}
        \cup {PyDict(f \o c) :
                 f \in {<<>>} \cup {<< <<FOUNDATION, s>> >> : s \in SectionContents},
                 c \in {<<>>} \cup {<< <<COMPETENCY, s>> >> : s \in SectionContents}}

\* contents of prerequisites.yaml
PrerequisiteContents ==
    {PyNone,
     PyDict(<<>>),
     PyDict(<< <<TI1, PyDict(<< <<SKS, PyNum(100)>> >>)>> >>),
     PyDict(<< <<TI1, PyList(<<PyDict(<< <<SKS, PyNum(100)>> >>)>>)>> >>),
     PyDict(<< <<TI1, PyList(<<PyDict(<< <<TI2, PyNum(20)>> >>),
                               PyDict(<< <<SKS, PyNum(100)>> >>)>>)>> >>),
     PyDict(<< <<TI1, PyList(<<PyNum(7), PyDict(<< <<TI2, PyNum(20)>> >>)>>)>> >>),
     PyDict(<< <<TI1, PyList(<<PyDict(<< <<TI2, PyStr(0)>> >>),
                               PyDict(<< <<SKS, PyNum(100)>> >>)>>)>> >>),
     PyDict(<< <<NumberKey, PyDict(<< <<SKS, PyNum(100)>> >>)>>,
               <<TI2, PyDict(<< <<TI1, PyNum(20)>> >>)>> >>),
     PyDict(<< <<TI1, PyDict(<< <<PyStr(202), PyNum(20)>>,
                                <<PyStr(101), PyNum(30)>> >>)>> >>),
     PyDict(<< <<TI1, PyList(<<PyDict(<< <<TI2, PyNum(20)>>,
                                         <<PyStr(3), PyStr(0)>> >>),
                               PyDict(<< <<SKS, PyNum(100)>> >>)>>)>> >>)}

\* a file that does not exist, and one whose reading or parsing raises
MissingFile == SourceFile(FALSE, FALSE, PyNone)

BrokenFile == SourceFile(TRUE, FALSE, PyNone)

SourceFiles(contents) ==
    {MissingFile, BrokenFile} \cup {SourceFile(TRUE, TRUE, c) : c \in contents}

\* --------------------------------------------------------------- load runs

LoadInit ==
    /\ call = <<>>
    /\ sources \in [courses : SourceFiles(CatalogContents),
                    relevance : SourceFiles(RelevanceContents),
                    prereqs : SourceFiles(PrerequisiteContents)]
    /\ metadata_map = <<>>
    /\ relevance_map = <<>>
    /\ prereq_map = <<>>
    /\ pc = "load"
    /\ build = "app"
    /\ doc = <<>>
    /\ weights = <<>>
    /\ config = None
    /\ transcript = None
    /\ response = None
    /\ effects = <<>>
    /\ inflight = <<>>

\* KnowledgeBase.__init__: the three files are read, then the three indices
\* are built in turn; a builder that raises ends the construction.
Load ==
    /\ pc = "load"
    /\ LET relevance == BuildRelevanceMap(LoadYaml(sources.relevance))
           prereqs == BuildPrerequisiteMap(LoadYaml(sources.prereqs))
       IN /\ metadata_map' = BuildMetadataMap(LoadYaml(sources.courses))
          /\ relevance_map' = IF relevance.raised THEN <<>> ELSE relevance.map
          /\ prereq_map' = IF relevance.raised \/ prereqs.raised THEN <<>>
                           ELSE prereqs.map
          /\ pc' = IF relevance.raised \/ prereqs.raised THEN "raised"
                   ELSE "ready"
    /\ UNCHANGED <<call, sources, inflight, build, doc, weights, config, transcript,
                   response, effects>>

\* knowledge_base.reload(), called by reload_data: the three files are read
\* again and the three indices rebuilt from them; effects keeps the index set
\* the object held before.
Reload ==
    /\ pc = "ready"
    /\ LET relevance == BuildRelevanceMap(LoadYaml(sources.relevance))
           prereqs == BuildPrerequisiteMap(LoadYaml(sources.prereqs))
       IN /\ metadata_map' = BuildMetadataMap(LoadYaml(sources.courses))
          /\ relevance_map' = IF relevance.raised THEN <<>> ELSE relevance.map
          /\ prereq_map' = IF relevance.raised \/ prereqs.raised THEN <<>>
                           ELSE prereqs.map
          /\ pc' = IF relevance.raised \/ prereqs.raised THEN "raised"
                   ELSE "reloaded"
    /\ effects' = <<[metadata_map |-> metadata_map,
                     relevance_map |-> relevance_map,
                     prereq_map |-> prereq_map]>>
    /\ UNCHANGED <<call, sources, inflight, build, doc, weights, config, transcript,
                   response>>

\* A caller asks the three accessors for a code.
Lookup ==
    /\ pc = "ready"
    /\ \E code \in QueryCodes :
           response' = <<[code |-> code,
                          metadata |-> GetCourseMetadata(metadata_map, code),
                          rules |-> GetRelevanceRules(relevance_map, code),
                          prerequisites |-> GetPrerequisites(prereq_map, code)]>>
    /\ pc' = "answered"
    /\ UNCHANGED <<call, sources, metadata_map, relevance_map, prereq_map, inflight,
                   build, doc, weights, config, transcript, effects>>

LoadNext == Load \/ Reload \/ Lookup

SpecLoad == LoadInit /\ [][LoadNext]_vars

\* ------------------------------------------ analyses on the shared singleton

\* The pages of the streamlit client call api_client from the script thread of
\* their session, so two analyses and an edit of the knowledge base run side
\* by side on the one knowledge_base object of the process. Every
\* knowledge_base.get_... call of an analysis reads the indices as they are at
\* the time of the call.

\* the sessions that analyse a transcript
Requests == {"a", "b"}

\* Index sets the knowledge base may hold: the full one, and one in which
\* course 2 is deleted and the rules of course 1 are replaced.
IndexSets ==
    {[metadata_map |-> [c \in {1, 2} |-> CourseMetadata(c)],
      relevance_map |-> [c \in {1, 2} |-> RuleMenu[c]],
      prereq_map |-> <<>>],
     [metadata_map |-> [c \in {1} |-> CourseMetadata(c)],
      relevance_map |-> [c \in {1} |-> RuleMenu[2]],
      prereq_map |-> <<>>]}

\* the index set a knowledge_base.get_... call reads
Snapshot ==
    [metadata_map |-> metadata_map, relevance_map |-> relevance_map,
     prereq_map |-> prereq_map]

SharedDocuments ==
    {Unreadable,
     Document(TRUE, NoHeader, <<>>),
     Document(TRUE, NoHeader, <<RequestLine(1), RequestLine(2)>>)}

\* weight triples that pass the check of the page (sum within 0.01 of 1.0)
SharedWeights == {Weights(200000, 300000, 500000), Weights(200000, 299989, 500000)}

\* the local state of a call of api_client.analyze_transcript
NewRequest(d, w) ==
    [pc |-> "start", doc |-> d, weights |-> w, line |-> 1,
     st |-> [results |-> <<>>, seen_codes |-> {}],
     config |-> None, recs |-> <<>>, observed |-> {}, outcome |-> None]

\* A parser that keeps seen_codes on the parser_service singleton: the codes
\* one call has seen are seen by every call.
WithSharedSeenCodes(reqs, r, locals) ==
    [o \in DOMAIN reqs |->
        IF o = r THEN locals
        ELSE [reqs[o] EXCEPT !.st.seen_codes = locals.st.seen_codes]]

\* results, seen_codes, student_grades and recommendations are local variables
\* of the call: a step of call r changes the state of r alone.
WithLocals(reqs, r, locals) == [reqs EXCEPT ![r] = locals]

SharedInit ==
    /\ call = <<>>
    /\ build = "streamlit"
    /\ \E k \in IndexSets :
           /\ metadata_map = k.metadata_map
           /\ relevance_map = k.relevance_map
           /\ prereq_map = k.prereq_map
    /\ inflight \in [Requests -> {NewRequest(d, w) : d \in SharedDocuments,
                                                     w \in SharedWeights}]
    /\ sources = <<>>
    /\ doc = <<>>
    /\ weights = <<>>
    /\ config = None
    /\ transcript = None
    /\ response = None
    /\ effects = <<>>
    /\ pc = "serving"

\* api_client.analyze_transcript: file.read(), then the try block of
\* parse_pdf that extracts the text of the pages
SharedOpen(r) ==
    /\ inflight[r].pc = "start"
    /\ LET q == inflight[r]
       IN inflight' = WithLocals(inflight, r,
              IF ~q.doc.readable \/ q.doc.broken_page
              THEN [q EXCEPT !.pc = "done",
                             !.outcome = <<Response(0,
                                 "Analysis Failed: Invalid PDF file.", None)>>]
              ELSE [q EXCEPT !.pc = "scan"])
    /\ UNCHANGED <<call, metadata_map, relevance_map, prereq_map, sources, build,
                   doc, weights, pc, config, transcript, response, effects>>

\* _extract_courses: one pass of the loop; knowledge_base.get_course_metadata
\* is called for a match whose code is not in seen_codes
SharedLookup(r) ==
    /\ inflight[r].pc = "scan"
    /\ inflight[r].line <= Len(inflight[r].doc.lines)
    /\ LET q == inflight[r]
           line == q.doc.lines[q.line]
           looked_up == /\ line.code # 0 /\ line.grades # <<>>
                        /\ line.code \notin q.st.seen_codes
       IN inflight' = WithLocals(inflight, r,
              [q EXCEPT !.st = ExtractMatch(line, metadata_map, q.st),
                        !.line = q.line + 1,
                        !.observed = IF looked_up THEN q.observed \cup {Snapshot}
                                     ELSE q.observed])
    /\ UNCHANGED <<call, metadata_map, relevance_map, prereq_map, sources, build,
                   doc, weights, pc, config, transcript, response, effects>>

\* api_client.analyze_transcript: parse_pdf returns; "if not
\* transcript.courses"; 3. Create Config Object
SharedConfigure(r) ==
    /\ inflight[r].pc = "scan"
    /\ inflight[r].line > Len(inflight[r].doc.lines)
    /\ LET q == inflight[r]
       IN inflight' = WithLocals(inflight, r,
              IF q.st.results = <<>>
              THEN [q EXCEPT !.pc = "done",
                             !.outcome = <<Response(0,
                                 "No courses found in PDF.", None)>>]
              ELSE IF AHPConfig(q.weights) = <<>>
              THEN [q EXCEPT !.pc = "done",
                             !.outcome = <<Response(0,
                                 "Analysis Failed: AHP Weights must sum to 1.0",
                                 None)>>]
              ELSE [q EXCEPT !.pc = "score", !.config = AHPConfig(q.weights)])
    /\ UNCHANGED <<call, metadata_map, relevance_map, prereq_map, sources, build,
                   doc, weights, pc, config, transcript, response, effects>>

\* ahp_service.analyze_transcript: one pass of "for profile in ProfileType",
\* whose scans call knowledge_base.get_all_mapping_keys and
\* get_relevance_rules; behind the last pass the list is sorted, ranked and
\* returned
SharedScore(r) ==
    /\ inflight[r].pc = "score"
    /\ LET q == inflight[r]
           recs == Append(q.recs,
                       Recommend(build, relevance_map,
                                 StudentHistory(q.st.results), q.config[1],
                                 ProfileType[Len(q.recs) + 1]))
           t == ParsePdfStreamlit(q.doc, <<>>)
       IN inflight' = WithLocals(inflight, r,
              IF Len(recs) < Len(ProfileType)
              THEN [q EXCEPT !.recs = recs,
                             !.observed = q.observed \cup {Snapshot}]
              ELSE [q EXCEPT !.recs = recs,
                             !.observed = q.observed \cup {Snapshot},
                             !.pc = "done",
                             !.outcome = <<Response(0, "success",
                                 <<[status |-> "success",
                                    student_metadata |->
                                        [name |-> t.student_name,
                                         id |-> t.student_id,
                                         gpa |-> t.gpa_raw],
                                    total_credits |-> TotalCredits(q.st.results),
                                    recommendations |->
                                        AssignRanks(SortDescending(recs))]>>)>>])
    /\ UNCHANGED <<call, metadata_map, relevance_map, prereq_map, sources, build,
                   doc, weights, pc, config, transcript, response, effects>>

\* knowledge_base.add_or_update_course, delete_course, update_relevance_rules
\* and reload, called by the editor pages and the admin endpoints: the index
\* set is replaced by another one in a single step.
SwapIndexSet ==
    /\ pc = "serving"
    /\ \E k \in IndexSets :
           /\ k # Snapshot
           /\ metadata_map' = k.metadata_map
           /\ relevance_map' = k.relevance_map
           /\ prereq_map' = k.prereq_map
    /\ UNCHANGED <<call, inflight, sources, build, doc, weights, pc, config,
                   transcript, response, effects>>

SharedNext ==
    \/ \E r \in Requests : SharedOpen(r)
    \/ \E r \in Requests : SharedLookup(r)
    \/ \E r \in Requests : SharedConfigure(r)
    \/ \E r \in Requests : SharedScore(r)
    \/ SwapIndexSet

SpecShared == SharedInit /\ [][SharedNext]_vars

\* --------------------------------------------------------------- score runs

\* Two transcripts are scored side by side against one relevance index.

\* the courses of the score runs
ScoreCodes == {1, 2, 3}

\* Rule lists of the score runs: the pair (AI, COMPETENCY) carries the weights
\* 1.0, 0.5 and 0.0, the pair (AI, FOUNDATION) the weights 0.5 and 1.0.
ScoreMenu ==
    << <<Rule("AI", COMPETENCY, 10), Rule("AI", FOUNDATION, 5)>>,
       <<Rule("AI", COMPETENCY, 5), Rule("DMS", COMPETENCY, 10),
         Rule("AI", FOUNDATION, 10)>>,
       <<Rule("AI", COMPETENCY, 0), Rule("PSD", FOUNDATION, 10)>> >>

\* A relevance index: each code is absent (0) or carries one list of the menu,
\* the choice taken nondecreasing in the code.
ScoreMaps ==
    {[c \in {x \in ScoreCodes : m[x] > 0} |-> ScoreMenu[m[c]]] :
        m \in {f \in [ScoreCodes -> 0 .. Len(ScoreMenu)] :
                  \A c, d \in ScoreCodes : c < d => f[c] <= f[d]}}

RECURSIVE ScoreCoursesOf(_, _)
ScoreCoursesOf(g, codes) ==
    IF codes = {} THEN <<>>
    ELSE LET c == CHOOSE x \in codes : \A y \in codes : x <= y
         IN (IF g[c] < 0 THEN <<>>
             ELSE <<ParsedCourse(c, "name", SksOf(c), "letter", g[c])>>)
            \o ScoreCoursesOf(g, codes \ {c})

\* Transcripts of the score runs: every code not taken (-1) or taken once.
ScoreTranscripts ==
    {[student_id |-> None, student_name |-> None,
      courses |-> ScoreCoursesOf(g, ScoreCodes), gpa_raw |-> None] :
        g \in [ScoreCodes -> EngineGrades \cup {-1}]}

\* the defaults of the endpoint: 0.3, 0.5, 0.2
DefaultWeights == Weights(300000, 500000, 200000)

ScoreInit ==
    /\ call = <<>>
    /\ build \in Builds
    /\ relevance_map \in ScoreMaps
    /\ inflight \in [Requests -> {[transcript |-> t, result |-> None] :
                                     t \in ScoreTranscripts}]
    /\ config = AHPConfig(DefaultWeights)
    /\ metadata_map = <<>>
    /\ prereq_map = <<>>
    /\ sources = <<>>
    /\ doc = <<>>
    /\ weights = <<>>
    /\ transcript = None
    /\ response = None
    /\ effects = <<>>
    /\ pc = "score"

\* analyze_transcript up to the sort: the grade dictionary, then for every
\* profile the three sub-scores (the locals f_score, c_score, d_score) and
\* the ProfileRecommendation built from them
Score(r) ==
    /\ pc = "score"
    /\ inflight[r].result = None
    /\ LET history == StudentHistory(inflight[r].transcript.courses)
           scores == [p \in ProfileSet |->
               [f_score |-> CalculateQualityScore(relevance_map, p,
                                                  FOUNDATION, history),
                c_score |-> CalculateQualityScore(relevance_map, p,
                                                  COMPETENCY, history),
                d_score |-> CalculateDensity(build, relevance_map, p,
                                             COMPETENCY, history)]]
           recs == [p \in ProfileSet |->
               Recommend(build, relevance_map, history, config[1], p)]
       IN inflight' = [inflight EXCEPT ![r].result =
                          <<[scores |-> scores, recommendations |-> recs]>>]
    /\ UNCHANGED <<call, build, metadata_map, relevance_map, prereq_map, sources,
                   doc, weights, pc, config, transcript, response, effects>>

ScoreNext == \E r \in Requests : Score(r)

SpecScore == ScoreInit /\ [][ScoreNext]_vars

\* --------------------------------------------------------- explanation runs

\* _generate_explanation applied to a score triple. A text of the model stands
\* for the sentence of its band, which the code completes with the name of
\* the profile.

\* scores of a triple: 0, 0.2, 0.25, 0.3, 0.5, 0.7, 0.75, 0.8, 0.9 and 1
ScoreValues ==
    {<<0, 1>>, <<1, 5>>, <<1, 4>>, <<3, 10>>, <<1, 2>>, <<7, 10>>, <<3, 4>>,
     <<4, 5>>, <<9, 10>>, <<1, 1>>}

ExplainInit ==
    /\ build \in Builds
    /\ call \in {[f |-> f, c |-> c, d |-> d, explanation |-> None] :
                    f \in ScoreValues, c \in ScoreValues, d \in ScoreValues}
    /\ metadata_map = <<>>
    /\ relevance_map = <<>>
    /\ prereq_map = <<>>
    /\ sources = <<>>
    /\ inflight = <<>>
    /\ doc = <<>>
    /\ weights = <<>>
    /\ config = None
    /\ transcript = None
    /\ response = None
    /\ effects = <<>>
    /\ pc = "explain"

\* explanation = self._generate_explanation(profile, f_score, c_score, d_score)
Explain ==
    /\ pc = "explain"
    /\ call' = [call EXCEPT !.explanation =
                   <<GenerateExplanation(build, call.f, call.c, call.d)>>]
    /\ pc' = "done"
    /\ UNCHANGED <<build, metadata_map, relevance_map, prereq_map, sources,
                   inflight, doc, weights, config, transcript, response,
                   effects>>

ExplainNext == Explain

SpecExplain == ExplainInit /\ [][ExplainNext]_vars

\* ================================================================== claims

ProfileIndex(p) == CHOOSE i \in 1 .. Len(ProfileType) : ProfileType[i] = p

Analyzed == pc = "done" /\ response # None

Recs == response[1].recommendations

TakenCompetency(p) ==
    {c \in DOMAIN relevance_map :
        /\ \E i \in 1 .. Len(relevance_map[c]) :
               /\ relevance_map[c][i].profile = p
               /\ relevance_map[c][i].type = COMPETENCY
        /\ \E j \in 1 .. Len(transcript[1].courses) :
               transcript[1].courses[j].code = c}

RecOf(p) == Recs[CHOOSE i \in 1 .. 4 : Recs[i].profile = p]

\* min(taken / 4, 1.0) in ten-thousandths
Saturated(taken) == IF taken >= 4 THEN 10000 ELSE taken * 2500

\* C4: COMPETENCY density of every profile equals min(taken / 4, 1.0), taken
\* being the number of distinct relevant competency courses the student took
\* (so 4 taken gives 1.0, 5 or more give 1.0, and the number of available
\* courses does not matter).
C4_DensitySaturation ==
    Analyzed =>
        \A p \in ProfileSet :
            RecOf(p).details.density_score
                = Saturated(Cardinality(TakenCompetency(p)))

\* Scenario A: one evidence record with grade 4.0 whose only rule is
\* (AI, COMPETENCY, 1.0), under weights F = 0.2, C = 0.5, D = 0.3.
ScenarioA ==
    /\ Len(transcript[1].courses) = 1
    /\ transcript[1].courses[1].grade_value = 40
    /\ DOMAIN relevance_map = {transcript[1].courses[1].code}
    /\ relevance_map[transcript[1].courses[1].code]
           = <<Rule("AI", COMPETENCY, 10)>>
    /\ config[1] = Weights(200000, 500000, 300000)

\* C5: finalScore = foundationQuality*wFoundation + competencyQuality*
\* wCompetency + competencyDensity*wDensity for every profile, and Scenario A
\* gives AI competencyQuality 1.0, competencyDensity 0.25, finalScore 0.575.
C5_Synthesis ==
    Analyzed =>
        /\ \A p \in ProfileSet :
               LET h == StudentHistory(transcript[1].courses)
               IN RecOf(p).score =
                      Round4(Synthesis(
                          CalculateQualityScore(relevance_map, p, FOUNDATION, h),
                          CalculateQualityScore(relevance_map, p, COMPETENCY, h),
                          CalculateDensity(build, relevance_map, p, COMPETENCY, h),
                          config[1]))
        /\ ScenarioA =>
               /\ RecOf("AI").details.competency_score = 10000
               /\ RecOf("AI").details.density_score = 2500
               /\ RecOf("AI").score = 5750

InUnit(x) == 0 <= x /\ x <= 10000

\* C10: foundationScore, competencyScore and densityScore lie in [0,1], and
\* finalScore lies in [0,1] for every configuration construction accepts.
C10_ScoresInUnitInterval ==
    Analyzed =>
        \A i \in 1 .. 4 :
            /\ InUnit(Recs[i].details.foundation_score)
            /\ InUnit(Recs[i].details.competency_score)
            /\ InUnit(Recs[i].details.density_score)
            /\ InUnit(Recs[i].details.final_ahp_score)
            /\ InUnit(Recs[i].score)

Parsed == pc = "done" /\ transcript # None

Courses == transcript[1].courses

RecordsOf(c) == {k \in 1 .. Len(Courses) : Courses[k].code = c}

\* C2: extraction never emits an EvidenceRecord for a code absent from the
\* metadata index: every code of the returned StudentTranscript is a key of it.
C2_OnlyKnownCodes ==
    Parsed => \A k \in 1 .. Len(Courses) : Courses[k].code \in DOMAIN metadata_map

\* the grade letter the build reads from a line that carries grade tokens:
\* the rightmost capture (app), the first capture behind the credits (streamlit)
LetterRead(line) ==
    IF build = "app" THEN CaptureBounded(line.grades[Len(line.grades)])
    ELSE CaptureUnbounded(line.grades[1])

SameCodePairs ==
    {<<i, j>> \in (1 .. Len(doc.lines)) \X (1 .. Len(doc.lines)) :
        i < j /\ doc.lines[i].code # 0 /\ doc.lines[i].code = doc.lines[j].code}

\* C3 as stated: two lines bearing the same course code give exactly one
\* EvidenceRecord for that code, with the grades of the first of the two lines.
C3_FirstOfTwoLines ==
    Parsed =>
        \A pr \in SameCodePairs :
            LET first == doc.lines[pr[1]]
            IN /\ Cardinality(RecordsOf(first.code)) = 1
               /\ first.grades # <<>>
               /\ \A k \in RecordsOf(first.code) :
                      /\ Courses[k].grade_letter = LetterRead(first)
                      /\ Courses[k].grade_value = GradeMap(LetterRead(first))

GradedLinesOf(c) ==
    {i \in 1 .. Len(doc.lines) : doc.lines[i].code = c /\ doc.lines[i].grades # <<>>}

\* C3 amended: for two lines bearing the same course code, a code of the
\* metadata index, at most one EvidenceRecord is emitted for the code; one is
\* emitted exactly when some line of the code carries a grade token, and its
\* grades are those read from the first such line.
C3_FirstGradedLine ==
    Parsed =>
        \A pr \in SameCodePairs :
            LET c == doc.lines[pr[1]].code
            IN c \in DOMAIN metadata_map =>
                   /\ Cardinality(RecordsOf(c)) <= 1
                   /\ (RecordsOf(c) # {}) = (GradedLinesOf(c) # {})
                   /\ \A k \in RecordsOf(c) :
                          LET i == CHOOSE x \in GradedLinesOf(c) :
                                       \A y \in GradedLinesOf(c) : x <= y
                          IN /\ Courses[k].grade_letter = LetterRead(doc.lines[i])
                             /\ Courses[k].grade_value
                                    = GradeMap(LetterRead(doc.lines[i]))

\* C3 witness: two graded lines of one known code with different grades, and
\* the record of the code carries the grade of the first.
C3_Witness ==
    /\ Parsed
    /\ \E pr \in SameCodePairs :
           LET a == doc.lines[pr[1]]
               b == doc.lines[pr[2]]
           IN /\ a.code \in DOMAIN metadata_map
              /\ a.grades # <<>> /\ b.grades # <<>>
              /\ GradeMap(LetterRead(a)) # GradeMap(LetterRead(b))
              /\ \E k \in RecordsOf(a.code) :
                     Courses[k].grade_value = GradeMap(LetterRead(a))

Done == pc = "done" /\ response # None

WeightSum == weights.w_foundation + weights.w_competency + weights.w_density

Did(work) == \E i \in 1 .. Len(effects) : effects[i] = work

\* the responses that report a rejected weight configuration
IsConfigurationError(r) ==
    \/ r.status = 400 /\ r.detail = "Invalid AHP Configuration"
    \/ r.detail = "Error: The sum of the weights must be exactly 1.0."
    \/ r.detail = "Analysis Failed: AHP Weights must sum to 1.0"

C7_NonNegativeWeights ==
    config # None =>
        /\ config[1].w_foundation >= 0
        /\ config[1].w_competency >= 0
        /\ config[1].w_density >= 0

\* C8: a request with an invalid weight triple (its upload being of the
\* accepted content type) is rejected with a configuration error before any
\* other work: no document bytes are read or parsed and the engine does not
\* run, on the HTTP and the direct-call path.
C8_ConfigurationErrorFirst ==
    (Done /\ doc.content_type = "application/pdf" /\ AHPConfig(weights) = None) =>
        /\ IsConfigurationError(response[1])
        /\ ~Did("read") /\ ~Did("parse") /\ ~Did("analyze")

IsEmptyEvidence(r) ==
    \/ r.status = 422 /\ r.detail = "Could not extract any courses."
    \/ r.status = 0 /\ r.detail = "No courses found in PDF."

\* C9: when the document is read but zero courses are extracted, the request
\* ends with the empty-evidence rejection (422 'Could not extract any
\* courses'), not with the extraction-failure or the internal-error outcome,
\* and the inference engine is not invoked.
C9_EmptyEvidenceRejection ==
    (Done /\ transcript # None /\ transcript[1].courses = <<>>) =>
        /\ IsEmptyEvidence(response[1])
        /\ ~Did("analyze")

\* the full-precision final_score of a profile, before round(final_score, 4)
FinalScore(p) ==
    LET history == StudentHistory(transcript[1].courses)
    IN Synthesis(CalculateQualityScore(relevance_map, p, FOUNDATION, history),
                 CalculateQualityScore(relevance_map, p, COMPETENCY, history),
                 CalculateDensity(build, relevance_map, p, COMPETENCY, history),
                 config[1])

\* x > y for two exact values
ExactGt(x, y) ==
    \/ x.units > y.units
    \/ x.units = y.units /\ x.num * y.den > y.num * x.den

\* C11: whenever the full-precision final score of profile p exceeds that of
\* profile q, p receives a smaller rank than q; rounding does not influence
\* the order.
C11_FullPrecisionOrder ==
    Analyzed =>
        \A p \in ProfileSet, q \in ProfileSet :
            ExactGt(FinalScore(p), FinalScore(q)) => RecOf(p).rank < RecOf(q).rank

\* the first line of the document that bears code c and carries grade tokens
FirstGradedLine(c) ==
    doc.lines[CHOOSE x \in GradedLinesOf(c) : \A y \in GradedLinesOf(c) : x <= y]

\* C14: when the bytes cannot be opened as a document, or the extraction of
\* a page fails, parse_pdf ends with the extraction error (ValueError) and
\* returns no StudentTranscript, whatever the pages read before gave.
C14_NoPartialResult ==
    (pc = "done" /\ (~doc.readable \/ doc.broken_page)) =>
        /\ transcript = None
        /\ response = <<[status |-> "ValueError"]>>

\* C14 witness: a page failed behind a graded line of a known course, and
\* the parse ended with the error and no transcript.
C14_Witness ==
    /\ pc = "done" /\ doc.readable /\ doc.broken_page
    /\ \E c \in DOMAIN metadata_map : GradedLinesOf(c) # {}
    /\ transcript = None
    /\ response = <<[status |-> "ValueError"]>>

\* the letter and sign of a token as written in the document
Written(tok) == tok.letter \o tok.sign

\* C15: the numericGrade of every record is the value, on the scale A=4.0,
\* A-=3.7, B+=3.3, B=3.0, B-=2.7, C+=2.3, C=2.0, D=1.0, E=0.0 (anything else
\* 0.0), of the rightmost grade token of the accepted line, sign included.
C15_RightmostSignedGrade ==
    Parsed =>
        \A k \in 1 .. Len(Courses) :
            LET line == FirstGradedLine(Courses[k].code)
            IN Courses[k].grade_value
                   = GradeMap(Written(line.grades[Len(line.grades)]))

\* C16: a header field whose label pattern does not match the document text
\* is unset (None) in the returned StudentTranscript.
C16_AbsentHeaderUnset ==
    Parsed =>
        /\ doc.nim = None => transcript[1].student_id = None
        /\ doc.nama = None => transcript[1].student_name = None
        /\ doc.ipk = None => transcript[1].gpa_raw = None

\* C17: code, name and sks of every record are those of the CourseMetadata of
\* its code in the metadata index; nothing printed in the document reaches
\* them.
C17_MetadataFromKnowledgeBase ==
    Parsed =>
        \A k \in 1 .. Len(Courses) :
            /\ Courses[k].code \in DOMAIN metadata_map
            /\ Courses[k].code = metadata_map[Courses[k].code].code
            /\ Courses[k].name = metadata_map[Courses[k].code].name
            /\ Courses[k].sks = metadata_map[Courses[k].code].sks

Loaded == pc \in {"ready", "raised"}

SourceNames == {"courses", "relevance", "prereqs"}

\* the file is missing or cannot be read
Failing(name) == ~sources[name].exists \/ ~sources[name].readable

\* what a readable file holds
ContentOf(name) == sources[name].content

IndexOf(name) ==
    CASE name = "courses" -> metadata_map
      [] name = "relevance" -> relevance_map
      [] OTHER -> prereq_map

\* the code in capitals without blanks that the text s of a code stands for
Canonical(s) == s % 100

\* the entries of the catalog, when it is a sequence
CatalogEntries ==
    IF ~Failing("courses") /\ ContentOf("courses").kind = "list"
    THEN {ContentOf("courses").items[i] :
             i \in 1 .. Len(ContentOf("courses").items)}
    ELSE {}

CatalogEntryOk(e) == e.kind = "dict" /\ e.code.kind = "str"

\* the <<section, key, value>> course entries of the relevance file
RelevanceEntries ==
    IF Failing("relevance") \/ ContentOf("relevance").kind # "dict" THEN {}
    ELSE LET top == ContentOf("relevance").items
         IN UNION {IF top[i][2].kind # "dict" THEN {}
                   ELSE {<<top[i][1], top[i][2].items[j][1], top[i][2].items[j][2]>> :
                            j \in 1 .. Len(top[i][2].items)} :
                   i \in 1 .. Len(top)}

RelevanceEntryOk(e) == e[2].kind = "str" /\ e[3].kind \in {"dict", "none"}

\* the <<key, requirements>> targets of the prerequisite file
PrerequisiteTargets ==
    IF Failing("prereqs") \/ ContentOf("prereqs").kind # "dict" THEN {}
    ELSE {ContentOf("prereqs").items[i] :
             i \in 1 .. Len(ContentOf("prereqs").items)}

\* the requirement items of a target
ItemsOf(t) == IF t[2].kind = "list" THEN {t[2].items[i] : i \in 1 .. Len(t[2].items)}
              ELSE {t[2]}

PrerequisiteItemOk(item) ==
    /\ item.kind = "dict"
    /\ \A i \in 1 .. Len(item.items) :
           item.items[i][1].kind = "str" /\ item.items[i][2].kind = "num"

\* the codes the well-formed records of a source are filed under
ExpectedCodes(name) ==
    CASE name = "courses" ->
             {Canonical(e.code.v) : e \in {x \in CatalogEntries : CatalogEntryOk(x)}}
      [] name = "relevance" ->
             {Canonical(e[2].v) : e \in {x \in RelevanceEntries : RelevanceEntryOk(x)}}
      [] OTHER ->
             {Canonical(t[1].v) : t \in {x \in PrerequisiteTargets : x[1].kind = "str"}}

\* the records of a source that fail validation
MalformedRecords(name) ==
    CASE name = "courses" -> {e \in CatalogEntries : ~CatalogEntryOk(e)}
      [] name = "relevance" -> {e \in RelevanceEntries : ~RelevanceEntryOk(e)}
      [] OTHER ->
             {t \in PrerequisiteTargets : t[1].kind # "str"}
                 \cup UNION {{<<t[1], item>> : item \in
                                 {x \in ItemsOf(t) : ~PrerequisiteItemOk(x)}} :
                             t \in PrerequisiteTargets}

\* the file is there, holds a collection of the expected shape, and has no
\* malformed record
Sound(name) ==
    /\ ~Failing(name)
    /\ ContentOf(name).kind = (IF name = "courses" THEN "list" ELSE "dict")
    /\ MalformedRecords(name) = {}
    /\ name = "relevance" =>
           \A i \in 1 .. Len(ContentOf(name).items) :
               ContentOf(name).items[i][2].kind \in {"dict", "none"}

C19_SkipMalformedRecordOnly ==
    (/\ Loaded
     /\ \A x \in SourceNames :
            ~Failing(x) /\ ContentOf(x).kind \in {"list", "dict"}
     /\ Cardinality(MalformedRecords("courses"))
            + Cardinality(MalformedRecords("relevance"))
            + Cardinality(MalformedRecords("prereqs")) = 1) =>
        /\ pc = "ready"
        /\ \A x \in SourceNames : ExpectedCodes(x) \subseteq DOMAIN IndexOf(x)

\* a pair of a profile mapping that names a profile and carries a weight in
\* [0, 1]
ValidPair(pair) ==
    pair[1] \in ProfileSet /\ pair[2].kind = "num" /\ pair[2].v \in 0 .. 10

\* the rule list of the relevance index holds the rule a pair of e states
HoldsRuleOf(e, pair) ==
    /\ Canonical(e[2].v) \in DOMAIN relevance_map
    /\ \E k \in 1 .. Len(relevance_map[Canonical(e[2].v)]) :
           relevance_map[Canonical(e[2].v)][k] = Rule(pair[1], e[1], pair[2].v)

\* the course entries of the relevance file whose value is a profile mapping
MappedEntries ==
    {e \in RelevanceEntries : e[2].kind = "str" /\ e[3].kind = "dict"}

\* C20: after a load, every pair of a course's profile mapping with a
\* recognized profile name and a valid weight is a rule of the course, whatever
\* stands before or behind it in the mapping, and no rule names a profile
\* outside ProfileType.
C20_UnknownProfileSkipped ==
    pc = "ready" =>
        /\ \A e \in MappedEntries :
               \A j \in 1 .. Len(e[3].items) :
                   ValidPair(e[3].items[j]) => HoldsRuleOf(e, e[3].items[j])
        /\ \A c \in DOMAIN relevance_map :
               \A k \in 1 .. Len(relevance_map[c]) :
                   relevance_map[c][k].profile \in ProfileSet

\* C20 witness: a mapping whose first pair names an unknown profile and whose
\* second pair is valid, and the rule of the second pair was loaded.
C20_Witness ==
    /\ pc = "ready"
    /\ \E e \in MappedEntries :
           /\ Len(e[3].items) >= 2
           /\ e[3].items[1][1] \notin ProfileSet
           /\ ValidPair(e[3].items[2])
           /\ HoldsRuleOf(e, e[3].items[2])

\* C12: all the index reads of one analysis see one index set: the set it
\* read first, whatever edits of the knowledge base run beside it.
C12_OneSnapshotPerRequest ==
    \A r \in DOMAIN inflight : Cardinality(inflight[r].observed) <= 1

\* the analyses that move in a step
Moved == {r \in Requests : inflight'[r] # inflight[r]}

\* C13: a step of an analysis, whether the analysis ends in an error or in a
\* result, leaves the three indices of the knowledge base as they are and
\* changes nothing of any other analysis.
C13_RequestsAreLocal ==
    [][Moved # {} =>
           /\ metadata_map' = metadata_map
           /\ relevance_map' = relevance_map
           /\ prereq_map' = prereq_map
           /\ Cardinality(Moved) = 1]_vars

\* C13 witness: one analysis ended with an error, the other with a result
\* for which it accepted a course the first had seen as well.
C13_Witness ==
    /\ inflight # <<>>
    /\ inflight["a"].pc = "done" /\ inflight["b"].pc = "done"
    /\ inflight["a"].outcome[1].detail = "Analysis Failed: AHP Weights must sum to 1.0"
    /\ inflight["b"].outcome[1].detail = "success"
    /\ inflight["a"].st.seen_codes \cap inflight["b"].st.seen_codes # {}

Variants(s) == {Canonical(s) + k : k \in {0, 100, 200, 300}}

\* C22: what the three accessors answer for a code is what they answer for
\* every variant of the code in letter case and surrounding blanks, and for a
\* code that an index does not hold the answer is None (metadata) or the empty
\* list (rules, prerequisites).
C22_NormalizedLookups ==
    pc = "answered" =>
        LET r == response[1]
        IN /\ \A v \in Variants(r.code) :
                  /\ GetCourseMetadata(metadata_map, v) = r.metadata
                  /\ GetRelevanceRules(relevance_map, v) = r.rules
                  /\ GetPrerequisites(prereq_map, v) = r.prerequisites
           /\ \A v \in Variants(r.code) :
                  /\ v \in DOMAIN metadata_map =>
                         r.metadata = <<metadata_map[v]>>
                  /\ v \in DOMAIN relevance_map => r.rules = relevance_map[v]
                  /\ v \in DOMAIN prereq_map => r.prerequisites = prereq_map[v]
           /\ Variants(r.code) \cap DOMAIN metadata_map = {} => r.metadata = None
           /\ Variants(r.code) \cap DOMAIN relevance_map = {} => r.rules = <<>>
           /\ Variants(r.code) \cap DOMAIN prereq_map = {} =>
                  r.prerequisites = <<>>

\* C22 witness: a code asked for in small letters with blanks around it, found
\* in the three indices.
C22_Witness ==
    /\ pc = "answered"
    /\ response[1].code = 301
    /\ response[1].metadata # None
    /\ response[1].rules # <<>>
    /\ response[1].prerequisites # <<>>

\* the credits of the records of a course list, added from the left
RECURSIVE CreditSum(_)
CreditSum(courses) ==
    IF courses = <<>> THEN 0 ELSE Head(courses).sks + CreditSum(Tail(courses))

\* the body of a response that carries an analysis
Succeeded == Done /\ response[1].body # None

Scored(r) == inflight # <<>> /\ inflight[r].result # None

CoursesIn(r) == inflight[r].transcript.courses

TakenIn(r) == {CoursesIn(r)[i].code : i \in 1 .. Len(CoursesIn(r))}

\* the numeric grade (tenths) of course c in the transcript of r
GradeIn(r, c) ==
    CoursesIn(r)[CHOOSE i \in 1 .. Len(CoursesIn(r)) : CoursesIn(r)[i].code = c]
        .grade_value

\* the rules of course c for the pair (p, t)
PairRules(c, p, t) ==
    {relevance_map[c][k] : k \in {i \in 1 .. Len(relevance_map[c]) :
        relevance_map[c][i].profile = p /\ relevance_map[c][i].type = t}}

\* the courses that carry a rule for the pair and that r took
RelevantTaken(r, p, t) ==
    {c \in DOMAIN relevance_map \cap TakenIn(r) : PairRules(c, p, t) # {}}

WeightFor(c, p, t) == (CHOOSE x \in PairRules(c, p, t) : TRUE).relevance_weight

\* sum of weight * grade (hundredths) and sum of weight (tenths) over the
\* relevant courses taken
Numerator(r, p, t) ==
    SumOver(RelevantTaken(r, p, t),
            [c \in RelevantTaken(r, p, t) |-> WeightFor(c, p, t) * GradeIn(r, c)])

Denominator(r, p, t) ==
    SumOver(RelevantTaken(r, p, t),
            [c \in RelevantTaken(r, p, t) |-> WeightFor(c, p, t)])

QualityOf(r, p, t) ==
    IF t = FOUNDATION THEN inflight[r].result[1].scores[p].f_score
    ELSE inflight[r].result[1].scores[p].c_score

Accepts(i) ==
    LET line == doc.lines[i]
        known == line.code \in DOMAIN metadata_map
    IN /\ line.code # 0
       /\ line.grades # <<>>
       /\ build = "app" => known
       /\ IF known THEN metadata_map[line.code].sks \in 1 .. 6
          ELSE line.sks \in 1 .. 6

\* the lines at which a code is accepted for the first time
FirstAccepted ==
    {i \in 1 .. Len(doc.lines) :
        /\ Accepts(i)
        /\ \A j \in 1 .. i - 1 :
               doc.lines[j].code = doc.lines[i].code => ~Accepts(j)}

\* the k-th of them from the top of the document
NthAccepted(k) ==
    CHOOSE i \in FirstAccepted :
        Cardinality({j \in FirstAccepted : j < i}) = k - 1

\* C25: the records of a transcript bear pairwise distinct codes and stand in
\* the order of the lines at which their codes were first accepted; a line
\* that was skipped for a missing grade token or a record that could not be
\* built leaves its code free for a later line.
C25_FirstSeenOrder ==
    Parsed =>
        /\ \A k, l \in 1 .. Len(Courses) :
               Courses[k].code = Courses[l].code => k = l
        /\ Len(Courses) = Cardinality(FirstAccepted)
        /\ \A k \in 1 .. Len(Courses) :
               /\ Courses[k].code = doc.lines[NthAccepted(k)].code
               /\ Courses[k].grade_letter = LetterRead(doc.lines[NthAccepted(k)])

\* C25 witness: a line whose record cannot be built, a later line of the same
\* code that is accepted, and the record of that later line.
C25_Witness ==
    /\ Parsed
    /\ \E i, j \in 1 .. Len(doc.lines) :
           /\ i < j
           /\ doc.lines[i].code = doc.lines[j].code
           /\ doc.lines[i].grades # <<>>
           /\ ~Accepts(i)
           /\ Accepts(j)
           /\ LetterRead(doc.lines[i]) # LetterRead(doc.lines[j])
           /\ \E k \in 1 .. Len(Courses) :
                  /\ Courses[k].code = doc.lines[j].code
                  /\ Courses[k].grade_letter = LetterRead(doc.lines[j])

Explained == pc = "done" /\ call # <<>> /\ call.explanation # None

\* x > n/d, x < n/d and x = 1 for a score x = <<numerator, denominator>>
Above(x, n, d) == x[1] * d > n * x[2]

Below(x, n, d) == x[1] * d < n * x[2]

Full(x) == x[1] = x[2]

\* The band tables: the threshold condition and the text of every band, in
\* the order in which the bands are tried; the last band is the catch-all.
Bands(b, f, c, d) ==
    IF b = "app"
    THEN << <<Above(c, 7, 10), "Highly recommended">>,
            <<Above(f, 7, 10) /\ Below(d, 2, 10), "High Potential">>,
            <<Above(d, 3, 10), "Good match">>,
            <<TRUE, "Moderate match">> >>
    ELSE << <<Above(c, 75, 100) /\ Full(d), "Excellent Candidate">>,
            <<Above(c, 75, 100) /\ Below(d, 5, 10), "Strong Potential">>,
            <<Above(f, 75, 100) /\ Below(c, 5, 10), "Solid Foundation">>,
            <<Above(d, 8, 10) /\ Below(c, 5, 10),
              "High Interest, Low Performance">>,
            <<Below(f, 5, 10) /\ Below(c, 5, 10), "Weak Match">>,
            <<TRUE, "Moderate Match">> >>

\* C26: the explanation of a score triple is the text of the first band of
\* the table whose condition holds for the triple, the catch-all band when no
\* other does, and it is never empty; being the table's answer for the
\* triple, it is the same whenever the triple is the same.
C26_FirstMatchingBand ==
    Explained =>
        LET bands == Bands(build, call.f, call.c, call.d)
            first == CHOOSE i \in 1 .. Len(bands) :
                         bands[i][1] /\ \A j \in 1 .. i - 1 : ~bands[j][1]
        IN /\ call.explanation[1] = bands[first][2]
           /\ call.explanation[1] # ""

\* C26 witness: a triple for which two bands of the streamlit table hold
\* (High Interest, Low Performance and Weak Match), answered with the earlier
\* one.
C26_Witness ==
    /\ Explained
    /\ build = "streamlit"
    /\ Above(call.d, 8, 10) /\ Below(call.c, 5, 10) /\ Below(call.f, 5, 10)
    /\ call.explanation[1] = "High Interest, Low Performance"

\* the requirement items of a target in file order: the items of a sequence,
\* or the single requirement object
ItemSeq(t) == IF t[2].kind = "list" THEN t[2].items ELSE <<t[2]>>

HasMarker(item) ==
    item.kind = "dict" /\ \E i \in 1 .. Len(item.items) : item.items[i][1] = SKS

MarkerValue(item) ==
    item.items[CHOOSE i \in 1 .. Len(item.items) : item.items[i][1] = SKS][2]

\* an item that cannot be read: no mapping, a credit count that is no number,
\* or a course key that is no text or whose grade is no number
MalformedItem(item) ==
    IF item.kind # "dict" THEN TRUE
    ELSE IF HasMarker(item) THEN MarkerValue(item).kind # "num"
    ELSE \E i \in 1 .. Len(item.items) :
             item.items[i][1].kind # "str" \/ item.items[i][2].kind # "num"

\* the rules an item stands for: none when it is malformed, one credit-count
\* rule when it carries the marker key, else one course rule per key, in order
RulesStated(target, item) ==
    IF MalformedItem(item) THEN <<>>
    ELSE IF HasMarker(item)
        THEN <<PrerequisiteRule(target, SKS_COUNT, None, None,
                                <<MarkerValue(item).v>>)>>
    ELSE [i \in 1 .. Len(item.items) |->
             PrerequisiteRule(target, COURSE_GRADE,
                              <<Canonical(item.items[i][1].v)>>,
                              <<item.items[i][2].v>>, None)]

RECURSIVE RulesStatedFrom(_, _, _)
RulesStatedFrom(target, items, i) ==
    IF i > Len(items) THEN <<>>
    ELSE RulesStated(target, items[i]) \o RulesStatedFrom(target, items, i + 1)

\* C27: after a load, the rule list of every target of prerequisites.yaml is
\* made of the rules of its requirement items in file order, a single
\* requirement object counting as a sequence of one item: one credit-count
\* rule for an item with the marker key, one course rule per key for any
\* other item, and nothing for a malformed item.
C27_PrerequisiteRules ==
    pc = "ready" =>
        \A t \in PrerequisiteTargets :
            /\ Canonical(t[1].v) \in DOMAIN prereq_map
            /\ prereq_map[Canonical(t[1].v)]
                   = RulesStatedFrom(Canonical(t[1].v), ItemSeq(t), 1)

\* the positions of the rules of a course for a profile and a criteria class
RulesOfPair(code, profile, criteria_type) ==
    {i \in 1 .. Len(relevance_map[code]) :
        /\ relevance_map[code][i].profile = profile
        /\ relevance_map[code][i].type = criteria_type}

\* C28: after a load from any relevance source, the relevance index holds at
\* most one rule per course code, profile and criteria class, also when two
\* keys of one section normalize to the same code, so the first matching rule
\* the engine takes is the only one.
C28_OneRulePerPair ==
    pc = "ready" =>
        \A code \in DOMAIN relevance_map :
            \A i \in 1 .. Len(relevance_map[code]) :
                Cardinality(RulesOfPair(code, relevance_map[code][i].profile,
                                        relevance_map[code][i].type)) = 1

\* the file is there and readable and holds nothing
Empty(name) == ~Failing(name) /\ ContentOf(name) = PyNone

\* C29: when a source file exists and has no content, the load completes
\* without raising and the index of that source is empty, for the catalog, the
\* relevance rules and the prerequisites alike (the other two files being
\* missing or empty too, so that nothing else decides the load).
C29_EmptySourceLoadsEmpty ==
    Loaded =>
        \A name \in SourceNames :
            (/\ Empty(name)
             /\ \A other \in SourceNames \ {name} : Failing(other) \/ Empty(other))
                => (pc = "ready" /\ IndexOf(name) = <<>>)

\* the same for the catalog and the prerequisites only
C29_EmptyCatalogOrPrerequisites ==
    Loaded =>
        \A name \in {"courses", "prereqs"} :
            (/\ Empty(name)
             /\ \A other \in SourceNames \ {name} : Failing(other))
                => (pc = "ready" /\ IndexOf(name) = <<>>)

\* the courses of the index that carry a rule for profile p, of either class
CoursesCarrying(p) ==
    {c \in DOMAIN relevance_map :
        \E i \in 1 .. Len(relevance_map[c]) : relevance_map[c][i].profile = p}

\* the two transcripts hold the same evidence for the courses of profile p:
\* each such course is taken in both or in neither, with the same grade
SameEvidence(p) ==
    \A c \in CoursesCarrying(p) :
        /\ c \in TakenIn("a") <=> c \in TakenIn("b")
        /\ c \in TakenIn("a") => GradeIn("a", c) = GradeIn("b", c)

ResultOf(r, p) ==
    [scores |-> inflight[r].result[1].scores[p],
     score |-> inflight[r].result[1].recommendations[p].score,
     details |-> inflight[r].result[1].recommendations[p].details]

====
